---- MODULE Spec2Model ----
(***************************************************************************)
(* A model of idbee: the IDBee.transaction coordinator and the Operations  *)
(* resolver (get / put / delete) in its two revisions, the chain-based one *)
(* of src/src/index.js and the straight-line one of src/unnamed/part_001.  *)
(* JavaScript values are tagged records; the tag is the class name that    *)
(* Object.prototype.toString reports, which is what isType compares.       *)
(***************************************************************************)
EXTENDS Integers, Sequences, FiniteSets, TLC

\* ------------------------------------------------------------------ bounds
\* Largest key the caller's logic writes inside a transaction.
MaxTxKey == 0
\* Most requests the caller's logic issues inside one transaction.
MaxOps == 2

\* ------------------------------------------------------------- JS values
Undefined == [tag |-> "Undefined"]
Num(n) == [tag |-> "Number", num |-> n]
Str(s) == [tag |-> "String", str |-> s]
Bool(b) == [tag |-> "Boolean", bool |-> b]
Fn(f) == [tag |-> "Function", fn |-> f]
Null == [tag |-> "Null"]

\* utils.js: Object.prototype.toString.call(value) === "[object " + expected + "]"
isType(value, expected) == value.tag = expected

\* The option (or field) is present: x !== undefined.
Has(x) == ~isType(x, "Undefined")

\* JavaScript's ToBoolean, as used by if (x), !x, x && y, x ? a : b.
Truthy(v) ==
  CASE v.tag = "Undefined" -> FALSE
    [] v.tag = "Null" -> FALSE
    [] v.tag = "Number" -> v.num # 0
    [] v.tag = "String" -> v.str # ""
    [] v.tag = "Boolean" -> v.bool
    [] OTHER -> TRUE

\* =================================================== IDBee.transaction
VARIABLES
  dbOpen,       \* this.db is set: an open() of the instance has succeeded
  dbClosed,     \* close() was called on that connection; this.db stays set
  txArgs,       \* the arguments of the transaction(...) call
  txPc,         \* "init" before the call, "called" after it
  txState,      \* the IDBTransaction: none, open, committing, complete, aborted
  storeNames,   \* the names the scope was opened over
  logicPc,      \* the caller's async function: none, active, waitReq, waitOther,
                \* resumed, resolved, rejected
  logicVal,     \* the value the caller's logic resolved with
  outer,        \* the promise transaction(...) returned
  pending,      \* requests placed on the scope and not yet settled, in order
  errBubbling,  \* a failed request's error event has reached the request and
                \* not yet the transaction
  working,      \* the stores' contents as seen inside the scope
  persisted,    \* the stores' contents outside the scope
  persisted0,   \* the contents when the scope was opened
  issued,       \* number of requests placed on the scope
  commitCalls,  \* number of transaction.commit() calls
  commitThrew,  \* a commit() call threw InvalidStateError
  failed,       \* what failed on the scope: "no", "request" (a request the logic
                \* did not await), "awaited" (one it awaited) or "abort"
  writesAtSettle, \* the scope held successful writes when the logic settled
  commitDue     \* the .finally callback has yet to call commit(): "no", or
                \* the context the call will be made in, "active" (the
                \* scope is active) or "inactive"

txVars == <<dbOpen, dbClosed, txArgs, txPc, txState, storeNames, logicPc, logicVal, outer,
            pending, errBubbling, working, persisted, persisted0, issued,
            commitCalls, commitThrew, failed, writesAtSettle, commitDue>>


\* db.objectStoreNames of the README's demo database.
ObjectStoreNames == <<"todos", "users">>
StoreSet == {ObjectStoreNames[i] : i \in 1..Len(ObjectStoreNames)}
TxKeys == 0..MaxTxKey

\* The store-name arrays a caller passes; <<>> and an unknown name are
\* refused by db.transaction.
SelectedNames == {<<"users">>, <<"todos">>, <<>>, <<"nope">>}

\* The values a caller's logic returns ({ success: true }, or nothing).
LogicValues == {"success", "undefined"}

NoValue == [kind |-> "none", v |-> "", names |-> <<>>]
LogicResult(v) == [kind |-> "logic", v |-> v, names |-> <<>>]
NamesResult(names) == [kind |-> "names", v |-> "", names |-> names]
ErrorResult(e) == [kind |-> "error", v |-> e, names |-> <<>>]

PendingPromise == [state |-> "pending", value |-> NoValue]

\* A promise's resolve function: the first settlement wins.
resolve(p, value) ==
  IF p.state = "pending" THEN [state |-> "resolved", value |-> value] ELSE p

\* A promise's reject function: the first settlement wins.
reject(p, error) ==
  IF p.state = "pending" THEN [state |-> "rejected", value |-> error] ELSE p

Range(s) == {s[i] : i \in 1..Len(s)}

\* The selection ignored: the scope always spans every store.
StoreNamesOf_AllStores(args) == ObjectStoreNames

\* selectedStoreNames ?? Array.from(this.db.objectStoreNames)
StoreNamesOf(args) == IF args.given THEN args.names ELSE ObjectStoreNames

\* db.transaction(storeNames, "readwrite") accepts a non-empty list of
\* existing stores.
ScopeAccepted(names) == names # <<>> /\ Range(names) \subseteq StoreSet

TxFinished == txState \in {"complete", "aborted"}

TxInit ==
  /\ dbOpen \in BOOLEAN
  /\ dbClosed = FALSE
  /\ txArgs \in [given : {TRUE}, names : SelectedNames, callback : {"none", "async", "sync"}]
           \cup [given : {FALSE}, names : {<<>>}, callback : {"none", "async", "sync"}]
  /\ txPc = "init"
  /\ txState = "none"
  /\ storeNames = <<>>
  /\ logicPc = "none"
  /\ logicVal = "undefined"
  /\ outer = PendingPromise
  /\ pending = <<>>
  /\ errBubbling = FALSE
  /\ persisted \in {[s \in StoreSet |-> IF s = "todos" THEN S ELSE {}] : S \in {{}, {0}}}
  /\ working = persisted
  /\ persisted0 = persisted
  /\ issued = 0
  /\ commitCalls = 0
  /\ commitThrew = FALSE
  /\ failed = "no"
  /\ writesAtSettle = FALSE
  /\ commitDue = "no"

\* transaction(...args) with no test of the callback's kind: a callback
\* that is not an async function gets a scope and is never run to a promise.
transaction_NoCallbackTest ==
  /\ txPc = "init"
  /\ txPc' = "called"
  /\ IF ~dbOpen
       THEN /\ outer' = reject(outer, ErrorResult("Database is not open."))
            /\ UNCHANGED <<txState, storeNames, logicPc,
                 commitDue>>
     ELSE IF dbClosed
       THEN /\ outer' = reject(outer, ErrorResult("InvalidStateError"))
            /\ UNCHANGED <<txState, storeNames, logicPc,
                 commitDue>>
     ELSE IF ~ScopeAccepted(StoreNamesOf(txArgs))
       THEN /\ outer' = reject(outer, ErrorResult("DOMException"))
            /\ UNCHANGED <<txState, storeNames, logicPc,
                 commitDue>>
     ELSE /\ txState' = "open"
          /\ storeNames' = StoreNamesOf(txArgs)
          /\ logicPc' = IF txArgs.callback = "async" THEN "active" ELSE "none"
          /\ UNCHANGED outer
  /\ UNCHANGED <<dbOpen, dbClosed, txArgs, logicVal, pending, errBubbling, working, persisted,
                 persisted0, issued, commitCalls, commitThrew, failed,
                 writesAtSettle,
                 commitDue>>

\* transaction(...args): the promise executor up to the registration of the
\* scope's handlers.  A throw inside the executor rejects the promise:
\* this.db.transaction throws InvalidStateError on a connection that was
\* closed, whatever the store names.
transaction ==
  /\ txPc = "init"
  /\ txPc' = "called"
  /\ IF ~dbOpen
       THEN /\ outer' = reject(outer, ErrorResult("Database is not open."))
            /\ UNCHANGED <<txState, storeNames, logicPc,
                 commitDue>>
     ELSE IF txArgs.callback = "sync"
       THEN /\ outer' = reject(outer, ErrorResult("Transaction callback must be an asynchronous function."))
            /\ UNCHANGED <<txState, storeNames, logicPc,
                 commitDue>>
     ELSE IF dbClosed
       THEN /\ outer' = reject(outer, ErrorResult("InvalidStateError"))
            /\ UNCHANGED <<txState, storeNames, logicPc,
                 commitDue>>
     ELSE IF ~ScopeAccepted(StoreNamesOf(txArgs))
       THEN /\ outer' = reject(outer, ErrorResult("DOMException"))
            /\ UNCHANGED <<txState, storeNames, logicPc,
                 commitDue>>
     ELSE /\ txState' = "open"
          /\ storeNames' = StoreNamesOf(txArgs)
          /\ logicPc' = IF txArgs.callback = "async" THEN "active" ELSE "none"
          /\ UNCHANGED outer
  /\ UNCHANGED <<dbOpen, dbClosed, txArgs, logicVal, pending, errBubbling, working, persisted,
                 persisted0, issued, commitCalls, commitThrew, failed,
                 writesAtSettle,
                 commitDue>>

\* close() ahead of the transaction call: this.db.close() on the connection
\* the instance holds; this.db stays set.  A close() made once a scope is
\* open only marks the connection for closing, the scope and its requests
\* go on to their end as they would, and it is no step here.
dbClose ==
  /\ txPc = "init"
  /\ dbOpen
  /\ ~dbClosed
  /\ dbClosed' = TRUE
  /\ UNCHANGED <<dbOpen, txArgs, txPc, txState, storeNames, logicPc, logicVal, outer,
                 pending, errBubbling, working, persisted, persisted0, issued, commitCalls,
                 commitThrew, failed, writesAtSettle, commitDue>>

\* The caller's logic is executing JavaScript: no event of the scope is
\* delivered before it suspends or settles.
LogicRunning == logicPc \in {"active", "resumed"}

\* JavaScript is executing: the caller's logic, or the microtasks between
\* the settlement of its promise and the .finally callback.
JsRunning == LogicRunning \/ commitDue # "no"

\* transaction.commit(): the scope starts committing when it is active, and
\* the call throws InvalidStateError otherwise.
commit(activeContext) ==
  /\ commitCalls' = commitCalls + 1
  /\ IF activeContext /\ txState = "open"
       THEN txState' = "committing" /\ UNCHANGED commitThrew
       ELSE commitThrew' = TRUE /\ UNCHANGED txState

\* The operations of a store's surface inside the scope, each with a key.
TxOps == {"add", "get", "put", "delete"}

\* The caller's logic calls stores[name].add / get / put / delete:
\* Operations places one request on the scope; the logic awaits the returned
\* promise or goes on.
LogicIssue ==
  /\ logicPc = "active"
  /\ txState = "open"
  /\ issued < MaxOps
  /\ \E s \in Range(storeNames), op \in TxOps, k \in TxKeys, aw \in BOOLEAN :
       /\ pending' = Append(pending, [store |-> s, op |-> op, key |-> k, awaited |-> aw])
       /\ logicPc' = IF aw THEN "waitReq" ELSE "active"
  /\ issued' = issued + 1
  /\ UNCHANGED <<dbOpen, dbClosed, txArgs, txPc, txState, storeNames, logicVal, outer, errBubbling,
                 working, persisted, persisted0, commitCalls, commitThrew, failed,
                 writesAtSettle,
                 commitDue>>

\* The caller's logic awaits a promise that is no request of the scope.
LogicAwaitOther ==
  /\ LogicRunning
  /\ logicPc' = "waitOther"
  /\ UNCHANGED <<dbOpen, dbClosed, txArgs, txPc, txState, storeNames, logicVal, outer, pending,
                 errBubbling, working, persisted, persisted0, issued, commitCalls,
                 commitThrew, failed, writesAtSettle,
                 commitDue>>

\* That promise settles: the logic goes on in a task of its own, in which the
\* scope is not active, and which does not start while an event is being
\* dispatched.
LogicResume ==
  /\ logicPc = "waitOther"
  /\ ~errBubbling
  /\ logicPc' = "resumed"
  /\ UNCHANGED <<dbOpen, dbClosed, txArgs, txPc, txState, storeNames, logicVal, outer, pending,
                 errBubbling, working, persisted, persisted0, issued, commitCalls,
                 commitThrew, failed, writesAtSettle,
                 commitDue>>

\* callback(objectStores).then(resolve), the logic returning v: the call's
\* promise is resolved; the .finally callback runs some microtasks later.
LogicReturn ==
  /\ LogicRunning
  /\ \E v \in LogicValues :
       /\ logicVal' = v
       /\ outer' = resolve(outer, LogicResult(v))
  /\ logicPc' = "resolved"
  /\ commitDue' = IF logicPc = "active" THEN "active" ELSE "inactive"
  /\ writesAtSettle' = (working # persisted0)
  /\ UNCHANGED <<dbOpen, dbClosed, txArgs, txPc, txState, storeNames, pending, errBubbling, working,
                 persisted, persisted0, issued, failed, commitCalls, commitThrew>>

\* The logic throwing with no commit requested afterwards.
LogicThrow_NoCommit ==
  /\ LogicRunning
  /\ outer' = reject(outer, ErrorResult("LogicError"))
  /\ logicPc' = "rejected"
  /\ writesAtSettle' = (working # persisted0)
  /\ UNCHANGED <<dbOpen, dbClosed, txArgs, txPc, txState, storeNames, logicVal, pending, errBubbling,
                 working, persisted, persisted0, issued, failed, commitCalls, commitThrew,
                 commitDue>>

\* callback(objectStores).then(resolve).catch(reject), the logic throwing:
\* the call's promise is rejected; the .finally callback runs later.
LogicThrow ==
  /\ LogicRunning
  /\ outer' = reject(outer, ErrorResult("LogicError"))
  /\ logicPc' = "rejected"
  /\ commitDue' = IF logicPc = "active" THEN "active" ELSE "inactive"
  /\ writesAtSettle' = (working # persisted0)
  /\ UNCHANGED <<dbOpen, dbClosed, txArgs, txPc, txState, storeNames, logicVal, pending, errBubbling,
                 working, persisted, persisted0, issued, failed, commitCalls, commitThrew>>

\* .finally(() => transaction.commit()): the microtasks queued when the
\* logic settled have run, no event of the scope in between.
LogicCommit ==
  /\ commitDue # "no"
  /\ commit(commitDue = "active")
  /\ commitDue' = "no"
  /\ UNCHANGED <<dbOpen, dbClosed, txArgs, txPc, storeNames, logicPc, logicVal, outer, pending,
                 errBubbling, working, persisted, persisted0, issued, failed,
                 writesAtSettle>>

\* add fails with ConstraintError when the key is taken; put overwrites.
RequestFails(r) == r.op = "add" /\ r.key \in working[r.store]

\* The stores' contents after the engine has processed request r: add and
\* put store a record at the key, delete removes it, get changes nothing.
StoreAfter(r, w) ==
  CASE r.op \in {"add", "put"} -> [w EXCEPT ![r.store] = @ \cup {r.key}]
    [] r.op = "delete" -> [w EXCEPT ![r.store] = @ \ {r.key}]
    [] OTHER -> w

\* The oldest request of the scope succeeds: request.onsuccess resolves the
\* operation's promise, and the logic awaiting it goes on.
TxRequestSuccess ==
  /\ txState \in {"open", "committing"}
  /\ ~JsRunning
  /\ ~errBubbling
  /\ pending # <<>>
  /\ ~RequestFails(Head(pending))
  /\ working' = StoreAfter(Head(pending), working)
  /\ pending' = Tail(pending)
  /\ logicPc' = IF Head(pending).awaited THEN "active" ELSE logicPc
  /\ UNCHANGED <<dbOpen, dbClosed, txArgs, txPc, txState, storeNames, logicVal, outer, errBubbling,
                 persisted, persisted0, issued, commitCalls, commitThrew, failed,
                 writesAtSettle,
                 commitDue>>

\* The oldest request of the scope fails: request.onerror rejects the
\* operation's promise, and the logic awaiting it goes on with the failure
\* before the error event reaches the transaction.
TxRequestError ==
  /\ txState \in {"open", "committing"}
  /\ ~JsRunning
  /\ ~errBubbling
  /\ pending # <<>>
  /\ RequestFails(Head(pending))
  /\ pending' = Tail(pending)
  /\ errBubbling' = TRUE
  /\ failed' = IF Head(pending).awaited THEN "awaited" ELSE "request"
  /\ logicPc' = IF Head(pending).awaited THEN "active" ELSE logicPc
  /\ UNCHANGED <<dbOpen, dbClosed, txArgs, txPc, txState, storeNames, logicVal, outer, working,
                 persisted, persisted0, issued, commitCalls, commitThrew, writesAtSettle,
                 commitDue>>

\* transaction.onerror = reject: the error event of the failed request has
\* reached the transaction.  On a call that has settled the listener
\* changes nothing.
TxOnError ==
  /\ errBubbling
  /\ ~JsRunning
  /\ outer.state = "pending"
  /\ outer' = reject(outer, ErrorResult("ConstraintError"))
  /\ UNCHANGED <<dbOpen, dbClosed, txArgs, txPc, txState, storeNames, logicPc, logicVal, pending,
                 errBubbling, working, persisted, persisted0, issued, commitCalls,
                 commitThrew, failed, writesAtSettle, commitDue>>

\* commit() was called while the error event was being dispatched: the
\* logic awaited the request that failed, went on in the microtasks after
\* request.onerror and settled there, and the .finally callback ran before
\* the event reached the transaction.
CommittedInDispatch == txState = "committing" /\ failed = "awaited"

\* The dispatch of the error event is over and commit() was called during
\* it: the scope is committing, no longer active, and the engine does not
\* abort it.
TxErrorNoAbort ==
  /\ errBubbling
  /\ ~JsRunning
  /\ outer.state # "pending"
  /\ CommittedInDispatch
  /\ errBubbling' = FALSE
  /\ UNCHANGED <<dbOpen, dbClosed, txArgs, txPc, txState, storeNames, logicPc, logicVal, outer,
                 pending, working, persisted, persisted0, issued, commitCalls, commitThrew,
                 failed, writesAtSettle, commitDue>>

\* The dispatch of the error event is over, the event was not cancelled
\* and the scope is still active, or it was committing when the request
\* failed: the scope aborts, the writes are undone and the requests left
\* are cancelled.
TxErrorAbort ==
  /\ errBubbling
  /\ ~JsRunning
  /\ outer.state # "pending"
  /\ ~CommittedInDispatch
  /\ txState' = "aborted"
  /\ working' = persisted
  /\ pending' = <<>>
  /\ errBubbling' = FALSE
  /\ UNCHANGED <<dbOpen, dbClosed, txArgs, txPc, storeNames, logicPc, logicVal, outer, persisted,
                 persisted0, issued, commitCalls, commitThrew, failed, writesAtSettle,
                 commitDue>>

\* The engine fires an error event at the cancelled request the logic
\* awaits: request.onerror rejects the operation's promise and the logic
\* goes on, in a task in which the scope is not active.
TxCancelled ==
  /\ txState = "aborted"
  /\ logicPc = "waitReq"
  /\ logicPc' = "resumed"
  /\ UNCHANGED <<dbOpen, dbClosed, txArgs, txPc, txState, storeNames, logicVal, outer, pending,
                 errBubbling, working, persisted, persisted0, issued, commitCalls,
                 commitThrew, failed, writesAtSettle, commitDue>>

\* The scope completing with no handler resolving the call.
TxComplete_NoResolve ==
  /\ txState \in {"open", "committing"}
  /\ ~JsRunning
  /\ ~errBubbling
  /\ pending = <<>>
  /\ txState' = "complete"
  /\ persisted' = working
  /\ UNCHANGED <<dbOpen, dbClosed, txArgs, txPc, storeNames, logicPc, logicVal, pending, outer,
                 errBubbling, working, persisted0, issued, commitCalls, commitThrew, failed,
                 writesAtSettle,
                 commitDue>>

\* transaction.oncomplete = () => resolve(storeNames): the scope commits once
\* no request is left, on commit() or of its own accord.
TxComplete ==
  /\ txState \in {"open", "committing"}
  /\ ~JsRunning
  /\ ~errBubbling
  /\ pending = <<>>
  /\ txState' = "complete"
  /\ persisted' = working
  /\ outer' = resolve(outer, NamesResult(storeNames))
  /\ UNCHANGED <<dbOpen, dbClosed, txArgs, txPc, storeNames, logicPc, logicVal, pending,
                 errBubbling, working, persisted0, issued, commitCalls, commitThrew, failed,
                 writesAtSettle,
                 commitDue>>

\* transaction.onabort = reject: the engine fails to commit the scope.
TxAbort ==
  /\ txState \in {"open", "committing"}
  /\ ~JsRunning
  /\ ~errBubbling
  /\ pending = <<>>
  /\ txState' = "aborted"
  /\ working' = persisted
  /\ failed' = "abort"
  /\ outer' = reject(outer, ErrorResult("AbortError"))
  /\ UNCHANGED <<dbOpen, dbClosed, txArgs, txPc, storeNames, logicPc, logicVal, pending,
                 errBubbling, persisted, persisted0, issued, commitCalls, commitThrew, writesAtSettle,
                 commitDue>>

\* ========================================================== Operations
\* The object store the operations act on is the README's "todos": keys are
\* out-of-line and generated when none is given, records carry userId, and
\* the index "userId" is defined over it.

\* Largest numeric key of the store.
MaxKey == 2
\* Most calls the caller makes one after the other.
MaxCalls == 2

VARIABLES
  rev,          \* the resolver revision: "chain" (src/src/index.js) or
                \* "straight" (src/unnamed/part_001)
  kind,         \* the operation called: "get", "put" or "delete"
  options,      \* the options record of the call
  data,         \* the store's contents: key -> record, Undefined when absent
  data0,        \* the contents before the call
  opPc,         \* "init" before the call, "called" after it
  returned,     \* what the call returned: "none", "promise", "undefined", "threw"
  opPromise,    \* the returned promise
  calls,        \* the engine calls made, in order
  queue,        \* engine requests not yet processed, in order
  handler,      \* the onsuccess handler registered on the main request
  container,    \* the cursor walk's result list
  cursorPos,    \* the entry the cursor is positioned at (Undefined: none)
  handlerThrew, \* an event handler threw
  opAborted,    \* the scope aborted (a request failed or a handler threw)
  opErrBubbling, \* a failed request's error event has reached the request
                \* and not yet the transaction
  keyGen,       \* the current number of the store's key generator
  visited,      \* the entries where(cursor.value) was applied at, in order
  history       \* the calls made before the current one, in order

opVars == <<rev, kind, options, data, data0, opPc, returned, opPromise, calls,
            queue, handler, container, cursorPos, handlerThrew, opAborted,
            opErrBubbling, keyGen, visited, history>>

\* A todo record; todo is the text that tells the seeded records apart.
Rec(u, c) == [tag |-> "Object", userId |-> u, completed |-> c, todo |-> Undefined]
Query(s, e, o) == [tag |-> "Object", start |-> s, end |-> e, only |-> o]
KeyRange(lo, hi) == [tag |-> "IDBKeyRange", lower |-> lo, upper |-> hi]

KeyUniverse == {Num(k) : k \in 0..MaxKey} \cup {Str("")}
\* The current number of the store's key generator when the scope opens:
\* the key it hands out first.
FirstGeneratedKey == MaxKey + 1
DataKeys == KeyUniverse \cup {Num(MaxKey + i) : i \in 1..MaxCalls}

\* IndexedDB's key order: numbers before strings.
KeyLess(a, b) ==
  IF a.tag = "Number" /\ b.tag = "Number" THEN a.num < b.num
  ELSE a.tag = "Number" /\ b.tag = "String"

KeyLeq(a, b) == a = b \/ KeyLess(a, b)

\* The userId of the README's predicates (value.userId === ...).
WhereUser == 1

\* The record stored at key k in the stores the model starts from.
SeedRecord(k) ==
  [Rec(IF k.tag = "Number" THEN k.num ELSE WhereUser, FALSE) EXCEPT !.todo = k]

IndexNames == {"userId"}

\* ------------------------------------------------------ #createRange
EmptyQuery == Query(Undefined, Undefined, Undefined)

\* IDBKeyRange.bound(lower, upper) throws DataError when lower is greater
\* than upper.
DataError == [tag |-> "DataError"]

\* #createRange testing start and end before only.
createRange_StartEndFirst(query) ==
  LET q == IF isType(query, "Undefined") THEN EmptyQuery ELSE query
  IN IF ~isType(q.start, "Undefined") /\ ~isType(q.end, "Undefined")
       THEN IF KeyLess(q.end, q.start) THEN DataError ELSE KeyRange(q.start, q.end)
     ELSE IF ~isType(q.only, "Undefined") THEN KeyRange(q.only, q.only)
     ELSE IF ~isType(q.start, "Undefined") THEN KeyRange(q.start, Undefined)
     ELSE IF ~isType(q.end, "Undefined") THEN KeyRange(Undefined, q.end)
     ELSE Undefined

\* #createRange(query = {}): only, then start and end, then start, then end.
createRange(query) ==
  LET q == IF isType(query, "Undefined") THEN EmptyQuery ELSE query
  IN IF ~isType(q.only, "Undefined") THEN KeyRange(q.only, q.only)
     ELSE IF ~isType(q.start, "Undefined") /\ ~isType(q.end, "Undefined")
       THEN IF KeyLess(q.end, q.start) THEN DataError ELSE KeyRange(q.start, q.end)
     ELSE IF ~isType(q.start, "Undefined") THEN KeyRange(q.start, Undefined)
     ELSE IF ~isType(q.end, "Undefined") THEN KeyRange(Undefined, q.end)
     ELSE Undefined

\* ------------------------------------------------------- engine calls
NoReq == [prim |-> "none", onIndex |-> FALSE, index |-> Undefined, key |-> Undefined,
          value |-> Undefined, range |-> Undefined, count |-> Undefined,
          direction |-> Undefined]

\* The outcome of the synchronous part of a call: a request placed on the
\* engine ("request"), a promise rejected by a throw inside its executor
\* ("reject"), a throw out of the call ("throw"), or no variant ("false").
Placed(req, mode) == [out |-> "request", req |-> req, mode |-> mode, error |-> ""]
Rejected(e) == [out |-> "reject", req |-> NoReq, mode |-> "none", error |-> e]
Thrown(e) == [out |-> "throw", req |-> NoReq, mode |-> "none", error |-> e]
False == [out |-> "false", req |-> NoReq, mode |-> "none", error |-> ""]

\* store.index(name) throws NotFoundError for a name that is no index.
IndexExists(index) == isType(index, "String") /\ index.str \in IndexNames

\* A request on the object store.
StoreReq(prim, key, value, range, count, direction) ==
  [prim |-> prim, onIndex |-> FALSE, index |-> Undefined, key |-> key, value |-> value,
   range |-> range, count |-> count, direction |-> direction]

\* A request on store.index(index); an IDBIndex has get, getAll and
\* openCursor, and no put, delete or clear.
IndexReq(prim, index, key, value, range, count, direction) ==
  [prim |-> prim, onIndex |-> TRUE, index |-> index, key |-> key, value |-> value,
   range |-> range, count |-> count, direction |-> direction]

\* ------------------------------------------- chain revision: get
\* const get = new OperationChainHandler(...)
getHandler(o) ==
  IF isType(o.key, "Undefined") \/ ~isType(o.index, "Undefined") \/ ~isType(o.where, "Undefined")
    THEN False
    ELSE Placed(StoreReq("get", o.key, Undefined, Undefined, Undefined, Undefined), "direct")

\* getAll with no test of index in its guard.
getAllHandler_AnyIndex(o) ==
  IF ~isType(o.key, "Undefined") \/ ~isType(o.where, "Undefined")
    THEN False
    ELSE Placed(StoreReq("getAll", Undefined, Undefined, createRange(o.query), o.count, Undefined),
                "direct")

\* const getAll = new OperationChainHandler(...)
getAllHandler(o) ==
  IF ~isType(o.key, "Undefined") \/ ~isType(o.index, "Undefined") \/ ~isType(o.where, "Undefined")
    THEN False
    ELSE Placed(StoreReq("getAll", Undefined, Undefined, createRange(o.query), o.count, Undefined),
                "direct")

\* indexGet with the lookup made on the store instead of the index.
indexGetHandler_OnStore(o) ==
  IF isType(o.key, "Undefined") \/ isType(o.index, "Undefined") \/ ~isType(o.where, "Undefined")
    THEN False
  ELSE IF ~IndexExists(o.index) THEN Rejected("NotFoundError")
  ELSE Placed(StoreReq("get", o.key, Undefined, Undefined, Undefined, Undefined), "direct")

\* const indexGet = new OperationChainHandler(...)
indexGetHandler(o) ==
  IF isType(o.key, "Undefined") \/ isType(o.index, "Undefined") \/ ~isType(o.where, "Undefined")
    THEN False
  ELSE IF ~IndexExists(o.index) THEN Rejected("NotFoundError")
  ELSE Placed(IndexReq("get", o.index, o.key, Undefined, Undefined, Undefined, Undefined), "direct")

\* indexGetAll handing no count to getAll.
indexGetAllHandler_NoCount(o) ==
  IF ~isType(o.key, "Undefined") \/ isType(o.index, "Undefined") \/ ~isType(o.where, "Undefined")
    THEN False
  ELSE IF ~IndexExists(o.index) THEN Rejected("NotFoundError")
  ELSE Placed(IndexReq("getAll", o.index, Undefined, Undefined, createRange(o.query), Undefined,
                       Undefined), "direct")

\* const indexGetAll = new OperationChainHandler(...)
indexGetAllHandler(o) ==
  IF ~isType(o.key, "Undefined") \/ isType(o.index, "Undefined") \/ ~isType(o.where, "Undefined")
    THEN False
  ELSE IF ~IndexExists(o.index) THEN Rejected("NotFoundError")
  ELSE Placed(IndexReq("getAll", o.index, Undefined, Undefined, createRange(o.query), o.count,
                       Undefined), "direct")

\* const cursorGet = new OperationChainHandler(...)
cursorGetHandler(o) ==
  IF ~isType(o.key, "Undefined") \/ ~isType(o.index, "Undefined") \/ isType(o.where, "Undefined")
    THEN False
  ELSE IF ~isType(o.where, "Function") THEN Thrown("where must be a function")
  ELSE Placed(StoreReq("openCursor", Undefined, Undefined, createRange(o.query), Undefined,
                       o.direction), "cursorGet")

\* const indexCursorGet = new OperationChainHandler(...)
indexCursorGetHandler(o) ==
  IF ~isType(o.key, "Undefined") \/ isType(o.index, "Undefined") \/ isType(o.where, "Undefined")
    THEN False
  ELSE IF ~isType(o.where, "Function") THEN Thrown("where must be a function")
  ELSE IF ~IndexExists(o.index) THEN Rejected("NotFoundError")
  ELSE Placed(IndexReq("openCursor", o.index, Undefined, Undefined, createRange(o.query),
                       Undefined, o.direction), "cursorGet")

\* ------------------------------------------- chain revision: put
\* put with the key left out of store.put(value, key).
putHandler_DropsKey(o) ==
  IF isType(o.value, "Undefined") \/ ~isType(o.where, "Undefined")
    THEN False
    ELSE Placed(StoreReq("put", Undefined, o.value, Undefined, Undefined, Undefined), "direct")

\* const put = new OperationChainHandler(...)
putHandler(o) ==
  IF isType(o.value, "Undefined") \/ ~isType(o.where, "Undefined")
    THEN False
    ELSE Placed(StoreReq("put", o.key, o.value, Undefined, Undefined, Undefined), "direct")

\* const cursorUpdate = new OperationChainHandler(...)
cursorUpdateHandler(o) ==
  IF ~isType(o.value, "Undefined") \/ ~isType(o.index, "Undefined") \/ isType(o.where, "Undefined")
    THEN False
  ELSE IF ~isType(o.where, "Function") THEN Thrown("where must be a function")
  ELSE Placed(StoreReq("openCursor", Undefined, Undefined, createRange(o.query), Undefined,
                       o.direction), "cursorUpdate")

\* const indexCursorUpdate = new OperationChainHandler(...)
indexCursorUpdateHandler(o) ==
  IF ~isType(o.value, "Undefined") \/ isType(o.index, "Undefined") \/ isType(o.where, "Undefined")
    THEN False
  ELSE IF ~isType(o.where, "Function") THEN Thrown("where must be a function")
  ELSE IF ~IndexExists(o.index) THEN Rejected("NotFoundError")
  ELSE Placed(IndexReq("openCursor", o.index, Undefined, Undefined, createRange(o.query),
                       Undefined, o.direction), "cursorUpdate")

\* ---------------------------------------- chain revision: delete
\* const remove = new OperationChainHandler(...)
removeHandler(o) ==
  IF isType(o.key, "Undefined") \/ ~isType(o.index, "Undefined") \/ ~isType(o.where, "Undefined")
    THEN False
    ELSE Placed(StoreReq("delete", o.key, Undefined, Undefined, Undefined, Undefined), "direct")

\* const cursorDelete = new OperationChainHandler(...)
cursorDeleteHandler(o) ==
  IF ~isType(o.value, "Undefined") \/ ~isType(o.index, "Undefined") \/ isType(o.where, "Undefined")
    THEN False
  ELSE IF ~isType(o.where, "Function") THEN Thrown("where must be a function")
  ELSE Placed(StoreReq("openCursor", Undefined, Undefined, createRange(o.query), Undefined,
                       o.direction), "cursorDelete")

\* const indexCursorDelete = new OperationChainHandler(...)
indexCursorDeleteHandler(o) ==
  IF ~isType(o.value, "Undefined") \/ isType(o.index, "Undefined") \/ isType(o.where, "Undefined")
    THEN False
  ELSE IF ~isType(o.where, "Function") THEN Thrown("where must be a function")
  ELSE IF ~IndexExists(o.index) THEN Rejected("NotFoundError")
  ELSE Placed(IndexReq("openCursor", o.index, Undefined, Undefined, createRange(o.query),
                       Undefined, o.direction), "cursorDelete")

\* const clear = new OperationChainHandler(...)
clearHandler(o) ==
  IF ~isType(o.key, "Undefined") \/ ~isType(o.index, "Undefined") \/ ~isType(o.where, "Undefined")
    THEN False
    ELSE Placed(StoreReq("clear", Undefined, Undefined, Undefined, Undefined, Undefined), "direct")

\* this.currentRequest(store, data) of the handler named h.
currentRequest(h, o) ==
  CASE h = "get" -> getHandler(o)
    [] h = "getAll" -> getAllHandler(o)
    [] h = "indexGet" -> indexGetHandler(o)
    [] h = "indexGetAll" -> indexGetAllHandler(o)
    [] h = "cursorGet" -> cursorGetHandler(o)
    [] h = "indexCursorGet" -> indexCursorGetHandler(o)
    [] h = "put" -> putHandler(o)
    [] h = "cursorUpdate" -> cursorUpdateHandler(o)
    [] h = "indexCursorUpdate" -> indexCursorUpdateHandler(o)
    [] h = "remove" -> removeHandler(o)
    [] h = "cursorDelete" -> cursorDeleteHandler(o)
    [] h = "indexCursorDelete" -> indexCursorDeleteHandler(o)
    [] h = "clear" -> clearHandler(o)

\* get.next(getAll); getAll.next(indexGet); ...
GetChain == <<"get", "getAll", "indexGet", "indexGetAll", "cursorGet", "indexCursorGet">>
\* put.next(cursorUpdate); cursorUpdate.next(indexCursorUpdate);
PutChain == <<"put", "cursorUpdate", "indexCursorUpdate">>
\* remove.next(cursorDelete); cursorDelete.next(indexCursorDelete); ...
DeleteChain == <<"remove", "cursorDelete", "indexCursorDelete", "clear">>

ChainOf(k) == CASE k = "get" -> GetChain [] k = "put" -> PutChain [] k = "delete" -> DeleteChain

\* OperationChainHandler.run from the i-th handler of the chain: the first
\* handler whose result is not false decides; a throw leaves the chain.
RECURSIVE run(_, _, _)
run(chain, i, o) ==
  LET result == currentRequest(chain[i], o)
  IN IF result.out # "false" THEN result
     ELSE IF i < Len(chain) THEN run(chain, i + 1, o)
     ELSE False

\* Operations.get / put / delete of the chain revision.
ChainResolve(k, o) == run(ChainOf(k), 1, o)

\* ------------------------------------------------ straight revision
\* An IDBIndex has no put, delete or clear: calling one throws TypeError
\* inside the promise executor.
ActionReq(o, prim, key, value, range, count, direction, mode) ==
  IF Truthy(o.index)
    THEN IF prim \in {"put", "delete", "clear"}
           THEN Rejected("TypeError: not a function")
           ELSE Placed(IndexReq(prim, o.index, key, value, range, count, direction), mode)
    ELSE Placed(StoreReq(prim, key, value, range, count, direction), mode)

\* Operations.get of src/unnamed/part_001, up to the request.
straightGet(o) ==
  LET mode == IF Truthy(o.where) THEN "cursorGet" ELSE "direct"
  IN IF Truthy(o.index) /\ ~IndexExists(o.index) THEN Rejected("NotFoundError")
     ELSE IF ~Truthy(o.key) /\ ~Truthy(o.where)
       THEN ActionReq(o, "getAll", Undefined, Undefined, createRange(o.query), o.count,
                      Undefined, mode)
     ELSE IF Truthy(o.key)
       THEN ActionReq(o, "get", o.key, Undefined, Undefined, Undefined, Undefined, mode)
     ELSE IF ~isType(o.where, "Function") THEN Rejected("where must be a function")
     ELSE ActionReq(o, "openCursor", Undefined, Undefined, createRange(o.query), Undefined,
                    o.direction, mode)

\* Operations.put of src/unnamed/part_001, up to the request.
straightPut(o) ==
  LET mode == IF Truthy(o.where) THEN "cursorUpdate" ELSE "direct"
  IN IF Truthy(o.index) /\ ~IndexExists(o.index) THEN Rejected("NotFoundError")
     ELSE IF Truthy(o.value) /\ ~Truthy(o.where)
       THEN ActionReq(o, "put", o.key, o.value, Undefined, Undefined, Undefined, mode)
     ELSE IF Truthy(o.where)
       THEN IF ~isType(o.where, "Function") THEN Rejected("where must be a function")
            ELSE ActionReq(o, "openCursor", Undefined, Undefined, createRange(o.query),
                           Undefined, o.direction, mode)
     ELSE Rejected("TypeError: request is undefined")

\* Operations.delete of src/unnamed/part_001, up to the request.
straightDelete(o) ==
  LET mode == IF Truthy(o.where) THEN "cursorDelete" ELSE "direct"
  IN IF Truthy(o.index) /\ ~IndexExists(o.index) THEN Rejected("NotFoundError")
     ELSE IF Truthy(o.key)
       THEN ActionReq(o, "delete", o.key, Undefined, Undefined, Undefined, Undefined, mode)
     ELSE IF Truthy(o.where)
       THEN IF ~isType(o.where, "Function") THEN Rejected("where must be a function")
            ELSE ActionReq(o, "openCursor", Undefined, Undefined, createRange(o.query),
                           Undefined, o.direction, mode)
     ELSE ActionReq(o, "clear", Undefined, Undefined, Undefined, Undefined, Undefined, mode)

\* Operations.get / put / delete of the straight-line revision.
StraightResolve(k, o) ==
  CASE k = "get" -> straightGet(o)
    [] k = "put" -> straightPut(o)
    [] k = "delete" -> straightDelete(o)

\* The synchronous part of new Operations().<kind>(store, options).
\* #createRange is called inside the promise executor, after the where test
\* and store.index(): its throw rejects the promise.
Resolve(r, k, o) ==
  LET res == IF r = "chain" THEN ChainResolve(k, o) ELSE StraightResolve(k, o)
  IN IF res.out = "request" /\ res.req.range = DataError THEN Rejected("DataError") ELSE res

\* ------------------------------------------------------- the engine
NoPos == [key |-> Undefined, ikey |-> Undefined]

Present(d, k) == d[k] # Undefined

\* The entries a request ranges over: the store's records by key, or the
\* index's entries by (userId, key).
InRange(k, range) ==
  \/ isType(range, "Undefined")
  \/ /\ (isType(range.lower, "Undefined") \/ KeyLeq(range.lower, k))
     /\ (isType(range.upper, "Undefined") \/ KeyLeq(k, range.upper))

EntryPos(req, d, k) ==
  [key |-> k, ikey |-> IF req.onIndex THEN Num(d[k].userId) ELSE Undefined]

SortKey(req, pos) == IF req.onIndex THEN pos.ikey ELSE pos.key

Entries(req, d) ==
  {pos \in {EntryPos(req, d, k) :
              k \in {x \in DataKeys : Present(d, x) /\ (req.onIndex => isType(d[x], "Object"))}} :
     InRange(SortKey(req, pos), req.range)}

PosLess(req, a, b) ==
  IF req.onIndex
    THEN KeyLess(a.ikey, b.ikey) \/ (a.ikey = b.ikey /\ KeyLess(a.key, b.key))
    ELSE KeyLess(a.key, b.key)

\* The direction ignored: every walk goes forward.
Forward_Always(req) == TRUE

\* openCursor(range, direction): "next" (the default) and "nextunique" go
\* up, "prev" and "prevunique" go down.
Forward(req) ==
  isType(req.direction, "Undefined") \/ req.direction \in {Str("next"), Str("nextunique")}

\* A unique direction on an index: of the entries sharing an index key
\* the cursor stops at the one with the lowest primary key only.  The keys
\* of a store are unique, so there the direction skips nothing.
Unique(req) == req.onIndex /\ req.direction \in {Str("nextunique"), Str("prevunique")}

\* a comes before b in the request's direction of travel; "prevunique"
\* takes the index keys downwards and the entries of one index key upwards.
Before(req, a, b) ==
  IF Forward(req) THEN PosLess(req, a, b)
  ELSE IF Unique(req)
    THEN KeyLess(b.ikey, a.ikey) \/ (a.ikey = b.ikey /\ KeyLess(a.key, b.key))
  ELSE PosLess(req, b, a)

\* The first entry after position `after` (NoPos: from the start), or NoPos;
\* in a unique direction the first entry with another index key.
NextEntry(req, d, after) ==
  LET rest == {e \in Entries(req, d) :
                 \/ after = NoPos
                 \/ Before(req, after, e) /\ (Unique(req) => e.ikey # after.ikey)}
  IN IF rest = {} THEN NoPos
     ELSE CHOOSE e \in rest : \A f \in rest : f = e \/ Before(req, e, f)

\* getAll(range, count): the records in order, count of them at most when
\* count is a positive number.
RECURSIVE Collect(_, _, _, _)
Collect(req, d, after, n) ==
  LET e == NextEntry(req, d, after)
  IN IF e = NoPos \/ n = 0 THEN <<>>
     ELSE <<d[e.key]>> \o Collect(req, d, e, n - 1)

GetAllResult(req, d) ==
  Collect(req, d, NoPos,
          IF isType(req.count, "Number") /\ req.count.num > 0
            THEN req.count.num ELSE Cardinality(DataKeys))

\* get(key): the record at the key, or the index's first record with it.
GetResult(req, d) ==
  IF req.onIndex
    THEN LET e == NextEntry([req EXCEPT !.range = KeyRange(req.key, req.key)], d, NoPos)
         IN IF e = NoPos THEN Undefined ELSE d[e.key]
    ELSE d[req.key]

\* The key a put writes at: the given one, or the generator's current number.
PutKey(req, gen) == IF isType(req.key, "Undefined") THEN Num(gen) ELSE req.key

\* The key generator after the engine has processed a main request: a put
\* that took its key from the generator, or brought a number not below the
\* current one, moves it past that key.
KeyGenAfter(req, gen) ==
  IF req.prim = "put" /\ isType(PutKey(req, gen), "Number") /\ PutKey(req, gen).num >= gen
    THEN PutKey(req, gen).num + 1 ELSE gen

\* delete(key) taking the first record at or after the key.
DataAfter_DeleteAtOrAfter(req, d, gen) ==
  CASE req.prim = "put" -> [d EXCEPT ![PutKey(req, gen)] = req.value]
    [] req.prim = "delete" ->
         LET e == NextEntry(StoreReq("openCursor", Undefined, Undefined,
                                     KeyRange(req.key, Undefined), Undefined, Undefined),
                            d, NoPos)
         IN IF e = NoPos THEN d ELSE [d EXCEPT ![e.key] = Undefined]
    [] req.prim = "clear" -> [k \in DataKeys |-> Undefined]
    [] OTHER -> d

\* The store after the engine has processed a main request.
DataAfter(req, d, gen) ==
  CASE req.prim = "put" -> [d EXCEPT ![PutKey(req, gen)] = req.value]
    [] req.prim = "delete" -> [d EXCEPT ![req.key] = Undefined]
    [] req.prim = "clear" -> [k \in DataKeys |-> Undefined]
    [] OTHER -> d

ValueRes(v) == [kind |-> "value", value |-> v, list |-> <<>>, pos |-> NoPos]
ListRes(l) == [kind |-> "list", value |-> Undefined, list |-> l, pos |-> NoPos]
CursorRes(d, pos) == [kind |-> "cursor", value |-> d[pos.key], list |-> <<>>, pos |-> pos]

\* event.target.result of a cursor request: the cursor, or null.
CursorOrNull(d, pos) == IF pos = NoPos THEN ValueRes(Null) ELSE CursorRes(d, pos)

\* event.target.result of a main request's success event.
MainResult(req, d, gen) ==
  CASE req.prim = "get" -> ValueRes(GetResult(req, d))
    [] req.prim = "getAll" -> ListRes(GetAllResult(req, d))
    [] req.prim = "put" -> ValueRes(PutKey(req, gen))
    [] req.prim = "openCursor" -> CursorOrNull(d, NextEntry(req, d, NoPos))
    [] OTHER -> ValueRes(Undefined)

\* ------------------------------------------------------- predicates
\* The README's predicates: (value) => value.userId === 1 ? ... : undefined.
ApplyWhere(w, value) ==
  IF ~isType(value, "Object") \/ value.userId # WhereUser THEN Undefined
  ELSE CASE w.fn = "returnsTrue" -> Bool(TRUE)
         [] w.fn = "returnsValue" -> value
         [] w.fn = "completes" -> [value EXCEPT !.completed = TRUE]

\* --------------------------------------------------- the op's promise
OpNone == [kind |-> "none", value |-> Undefined, list |-> <<>>, error |-> ""]
OpValue(v) == [kind |-> "value", value |-> v, list |-> <<>>, error |-> ""]
OpList(l) == [kind |-> "list", value |-> Undefined, list |-> l, error |-> ""]
OpError(e) == [kind |-> "error", value |-> Undefined, list |-> <<>>, error |-> e]

NoPromise == [state |-> "none", value |-> OpNone]
PendingOp == [state |-> "pending", value |-> OpNone]

MainItem == [type |-> "main", pos |-> NoPos, value |-> Undefined]
ContinueItem == [type |-> "continue", pos |-> NoPos, value |-> Undefined]
UpdateItem(pos, v) == [type |-> "update", pos |-> pos, value |-> v]
DeleteItem(pos) == [type |-> "delete", pos |-> pos, value |-> Undefined]

\* The walk resolving with an empty list whatever was collected.
WalkResult_Empty(r, mode, cont) == OpList(<<>>)

\* What the walk resolves with when the cursor is exhausted: resolve(result),
\* resolve(cursorContainer), or resolve() in the straight-line delete.
WalkResult(r, mode, cont) ==
  IF mode = "cursorDelete" /\ r = "straight" THEN OpValue(Undefined) ELSE OpList(cont)

\* request.onsuccess deleting on every truthy result of where, not only true.
onsuccess_DeletesOnTruthy(r, mode, where, res, promise, cont) ==
  IF mode = "direct"
    THEN [promise |-> resolve(promise, IF res.kind = "list" THEN OpList(res.list)
                                       ELSE OpValue(res.value)),
          container |-> cont, placed |-> <<>>, threw |-> FALSE]
  ELSE IF res.kind = "cursor"
    THEN LET callbackResult == ApplyWhere(where, res.value)
         IN CASE mode = "cursorGet" ->
                   [promise |-> promise,
                    container |-> IF Truthy(callbackResult)
                                    THEN Append(cont, callbackResult) ELSE cont,
                    placed |-> <<ContinueItem>>, threw |-> FALSE]
              [] mode = "cursorUpdate" ->
                   [promise |-> promise, container |-> cont,
                    placed |-> IF Truthy(callbackResult)
                                 THEN <<UpdateItem(res.pos, callbackResult), ContinueItem>>
                                 ELSE <<ContinueItem>>,
                    threw |-> FALSE]
              [] mode = "cursorDelete" ->
                   [promise |-> promise, container |-> cont,
                    placed |-> IF Truthy(callbackResult)
                                 THEN <<DeleteItem(res.pos), ContinueItem>>
                                 ELSE <<ContinueItem>>,
                    threw |-> FALSE]
  ELSE IF res.kind = "list" \/ Truthy(res.value)
    THEN [promise |-> promise, container |-> cont, placed |-> <<>>, threw |-> TRUE]
  ELSE [promise |-> resolve(promise, WalkResult(r, mode, cont)),
        container |-> cont, placed |-> <<>>, threw |-> FALSE]

\* request.onsuccess of the main request, on the result `res`: what becomes
\* of the promise and of the result list, which requests the handler
\* places, and whether it threw.
onsuccess(r, mode, where, res, promise, cont) ==
  IF mode = "direct"
    THEN [promise |-> resolve(promise, IF res.kind = "list" THEN OpList(res.list)
                                       ELSE OpValue(res.value)),
          container |-> cont, placed |-> <<>>, threw |-> FALSE]
  ELSE IF res.kind = "cursor"
    THEN LET callbackResult == ApplyWhere(where, res.value)
         IN CASE mode = "cursorGet" ->
                   [promise |-> promise,
                    container |-> IF Truthy(callbackResult)
                                    THEN Append(cont, callbackResult) ELSE cont,
                    placed |-> <<ContinueItem>>, threw |-> FALSE]
              [] mode = "cursorUpdate" ->
                   [promise |-> promise, container |-> cont,
                    placed |-> IF Truthy(callbackResult)
                                 THEN <<UpdateItem(res.pos, callbackResult), ContinueItem>>
                                 ELSE <<ContinueItem>>,
                    threw |-> FALSE]
              [] mode = "cursorDelete" ->
                   [promise |-> promise, container |-> cont,
                    placed |-> IF callbackResult = Bool(TRUE)
                                 THEN <<DeleteItem(res.pos), ContinueItem>>
                                 ELSE <<ContinueItem>>,
                    threw |-> FALSE]
  ELSE IF res.kind = "list" \/ Truthy(res.value)
    \* the result is no cursor: where(cursor.value) or cursor.continue() throws
    THEN [promise |-> promise, container |-> cont, placed |-> <<>>, threw |-> TRUE]
  ELSE [promise |-> resolve(promise, WalkResult(r, mode, cont)),
        container |-> cont, placed |-> <<>>, threw |-> FALSE]

\* ---------------------------------------------------------- inputs
KeyOptions == {Undefined} \cup KeyUniverse
IndexOptions == {Undefined, Str("userId"), Str("nope")}
ValueOptions == {Undefined, Rec(WhereUser, TRUE)}
\* Num(1) is a where that is no function.
WhereOptions == {Undefined, Fn("returnsTrue"), Fn("returnsValue"), Fn("completes"), Num(1)}
ScanOptions ==
  {[query |-> Undefined, count |-> Undefined, direction |-> Undefined],
   [query |-> Query(Num(1), Undefined, Undefined), count |-> Num(1), direction |-> Str("prev")],
   [query |-> Query(Num(0), Num(1), Undefined), count |-> Undefined, direction |-> Str("next")],
   [query |-> Query(Num(1), Num(1), Undefined), count |-> Undefined, direction |-> Undefined],
   [query |-> Query(Num(1), Num(0), Undefined), count |-> Undefined, direction |-> Undefined],
   [query |-> Query(Num(1), Num(2), Undefined), count |-> Num(2), direction |-> Undefined],
   [query |-> Query(Num(0), Num(1), Undefined), count |-> Num(0), direction |-> Undefined],
   [query |-> Undefined, count |-> Undefined, direction |-> Str("nextunique")],
   [query |-> Query(Num(0), Num(1), Undefined), count |-> Undefined,
    direction |-> Str("prevunique")]}

OptionsSet ==
  {[key |-> k, index |-> i, value |-> v, where |-> w, query |-> s.query, count |-> s.count,
    direction |-> s.direction] :
     k \in KeyOptions, i \in IndexOptions, v \in ValueOptions, w \in WhereOptions,
     s \in ScanOptions}

InitialStores ==
  {[k \in DataKeys |-> IF k \in S THEN SeedRecord(k) ELSE Undefined] : S \in SUBSET KeyUniverse}

OpInit ==
  /\ rev \in {"chain", "straight"}
  /\ kind \in {"get", "put", "delete"}
  /\ options \in OptionsSet
  /\ data \in InitialStores
  /\ data0 = data
  /\ opPc = "init"
  /\ returned = "none"
  /\ opPromise = NoPromise
  /\ calls = <<>>
  /\ queue = <<>>
  /\ handler = "none"
  /\ container = <<>>
  /\ cursorPos = NoPos
  /\ handlerThrew = FALSE
  /\ opAborted = FALSE
  /\ opErrBubbling = FALSE
  /\ keyGen = FirstGeneratedKey
  /\ visited = <<>>
  /\ history = <<>>

\* new Operations().get / put / delete (store, options): the variant is
\* resolved and its request placed; the call returns a promise, returns
\* undefined, or throws.
OpCall ==
  /\ opPc = "init"
  /\ opPc' = "called"
  /\ LET r == Resolve(rev, kind, options)
     IN /\ returned' = CASE r.out \in {"request", "reject"} -> "promise"
                         [] r.out = "throw" -> "threw"
                         [] r.out = "false" -> "undefined"
        /\ opPromise' = CASE r.out = "request" -> PendingOp
                          [] r.out = "reject" -> reject(PendingOp, OpError(r.error))
                          [] OTHER -> NoPromise
        /\ calls' = IF r.out = "request" THEN <<r.req>> ELSE <<>>
        /\ queue' = IF r.out = "request" THEN Append(queue, MainItem) ELSE queue
        /\ handler' = r.mode
  /\ UNCHANGED <<rev, kind, options, data, data0, container, cursorPos, handlerThrew,
                 opAborted, opErrBubbling, keyGen, visited, history>>

\* The store's contents when the scope was opened: what an abort of the
\* scope goes back to.
ScopeStart == IF history = <<>> THEN data0 ELSE history[1].before

\* The handler's outcome applied to the state; a throw in an event handler
\* aborts the scope, which undoes everything written in it, and leaves the
\* promise as it is.
Dispatch(out, d, pos, gen) ==
  /\ opPromise' = out.promise
  /\ container' = out.container
  /\ handlerThrew' = out.threw
  /\ opAborted' = out.threw
  /\ queue' = IF out.threw THEN <<>> ELSE Tail(queue) \o out.placed
  /\ data' = IF out.threw THEN ScopeStart ELSE d
  /\ keyGen' = IF out.threw THEN FirstGeneratedKey ELSE gen
  /\ cursorPos' = pos
  /\ visited' = IF pos # NoPos THEN Append(visited, pos) ELSE visited

\* The engine has processed the main request: request.onsuccess.
MainSuccess ==
  /\ opPc = "called"
  /\ ~opErrBubbling
  /\ queue # <<>>
  /\ Head(queue).type = "main"
  /\ LET req == calls[1]
         d == DataAfter(req, data, keyGen)
         res == MainResult(req, data, keyGen)
     IN Dispatch(onsuccess(rev, handler, options.where, res, opPromise, container), d, res.pos,
                 KeyGenAfter(req, keyGen))
  /\ UNCHANGED <<rev, kind, options, data0, opPc, returned, calls, handler, opErrBubbling,
                 history>>

\* cursor.continue() has moved the cursor: request.onsuccess again.
ContinueSuccess ==
  /\ opPc = "called"
  /\ ~opErrBubbling
  /\ queue # <<>>
  /\ Head(queue).type = "continue"
  /\ LET res == CursorOrNull(data, NextEntry(calls[1], data, cursorPos))
     IN Dispatch(onsuccess(rev, handler, options.where, res, opPromise, container), data,
                 res.pos, keyGen)
  /\ UNCHANGED <<rev, kind, options, data0, opPc, returned, calls, handler, opErrBubbling,
                 history>>

\* The sub-request's onsuccess appending nothing to the result list.
SubSuccess_DropsKey ==
  /\ opPc = "called"
  /\ ~opErrBubbling
  /\ queue # <<>>
  /\ Head(queue).type \in {"update", "delete"}
  /\ data' = [data EXCEPT ![Head(queue).pos.key] =
                IF Head(queue).type = "update" THEN Head(queue).value ELSE Undefined]
  /\ queue' = Tail(queue)
  /\ UNCHANGED <<rev, kind, options, data0, opPc, returned, opPromise, calls, handler,
                 container, cursorPos, handlerThrew, opAborted, opErrBubbling, keyGen,
                 visited, history>>

\* What the sub-request's onsuccess pushes: request.result of
\* cursor.update, the record's primary key, and request.source.key of
\* cursor.delete, the cursor's key, which on an index is the index key.
Pushed(item, req) ==
  IF item.type = "delete" /\ req.onIndex THEN item.pos.ikey ELSE item.pos.key

\* cursor.update(callbackResult) / cursor.delete() has succeeded: the
\* sub-request's onsuccess.  The chain revision's delete pushes
\* request.source.key, the straight-line one's does nothing.
SubSuccess ==
  /\ opPc = "called"
  /\ ~opErrBubbling
  /\ queue # <<>>
  /\ Head(queue).type \in {"update", "delete"}
  /\ LET item == Head(queue)
     IN /\ data' = [data EXCEPT ![item.pos.key] =
                      IF item.type = "update" THEN item.value ELSE Undefined]
        /\ container' = IF item.type = "update" \/ rev = "chain"
                          THEN Append(container, Pushed(item, calls[1])) ELSE container
  /\ queue' = Tail(queue)
  /\ UNCHANGED <<rev, kind, options, data0, opPc, returned, opPromise, calls, handler,
                 cursorPos, handlerThrew, opAborted, opErrBubbling, keyGen, visited,
                 history>>

\* A failing request whose onerror does not reject the promise.
OpRequestError_Swallowed ==
  /\ opPc = "called"
  /\ ~opErrBubbling
  /\ queue # <<>>
  /\ queue' = Tail(queue)
  /\ opErrBubbling' = TRUE
  /\ UNCHANGED <<rev, kind, options, data, data0, opPc, returned, opPromise, calls, handler,
                 container, cursorPos, handlerThrew, opAborted, keyGen, visited, history>>

\* A failing request whose error event does not abort the scope: the
\* requests placed after it stay in flight.
OpRequestError_WalkGoesOn ==
  /\ opPc = "called"
  /\ ~opErrBubbling
  /\ queue # <<>>
  /\ opPromise' = reject(opPromise, OpError("RequestError"))
  /\ queue' = Tail(queue)
  /\ UNCHANGED <<rev, kind, options, data, data0, opPc, returned, calls, handler, container,
                 cursorPos, handlerThrew, opAborted, opErrBubbling, keyGen, visited, history>>

\* The first request in flight fails: request.onerror rejects the promise.
\* The error event has yet to reach the transaction; until it has, the
\* engine delivers nothing else, and the continuation of the rejected
\* promise may run.
OpRequestError ==
  /\ opPc = "called"
  /\ ~opErrBubbling
  /\ queue # <<>>
  /\ opPromise' = reject(opPromise, OpError("RequestError"))
  /\ queue' = Tail(queue)
  /\ opErrBubbling' = TRUE
  /\ UNCHANGED <<rev, kind, options, data, data0, opPc, returned, calls, handler, container,
                 cursorPos, handlerThrew, opAborted, keyGen, visited, history>>

\* The error event was not cancelled: the scope aborts, which undoes
\* everything written in it and cancels the requests left.  The promise of
\* the call that placed a cancelled request is still as it was.
OpAbort ==
  /\ opPc = "called"
  /\ opErrBubbling
  /\ opErrBubbling' = FALSE
  /\ opAborted' = TRUE
  /\ data' = ScopeStart
  /\ keyGen' = FirstGeneratedKey
  /\ queue' = <<>>
  /\ UNCHANGED <<rev, kind, options, data0, opPc, returned, opPromise, calls, handler,
                 container, cursorPos, handlerThrew, visited, history>>

\* One task later the engine fires an error event at the request the abort
\* cancelled: request.onerror rejects the promise of the call that placed
\* it.  The call whose request failed has its promise rejected already, so
\* the event shows on a call placed after the failure only.
OpCancelled ==
  /\ opPc = "called"
  /\ opAborted
  /\ ~handlerThrew
  /\ opPromise.state = "pending"
  /\ opPromise' = reject(opPromise, OpError("AbortError"))
  /\ UNCHANGED <<rev, kind, options, data, data0, opPc, returned, calls, queue, handler,
                 container, cursorPos, handlerThrew, opAborted, opErrBubbling, keyGen,
                 visited, history>>

\* -------------------------------------------------- sequences of calls

\* What a finished call leaves behind.
CallSummary ==
  [kind |-> kind, options |-> options, returned |-> returned, promise |-> opPromise,
   before |-> data0, after |-> data]

\* The options { key: k }.
KeyOnly(k) ==
  [key |-> k, index |-> Undefined, value |-> Undefined, where |-> Undefined,
   query |-> Undefined, count |-> Undefined, direction |-> Undefined]

\* The call has come back with nothing to wait for, or its promise has
\* settled.
CallOver == returned \in {"undefined", "threw"} \/ opPromise.state \in {"resolved", "rejected"}

\* The caller goes on in the same scope once the call is over, in the
\* continuation of its promise when it returned one: it reads the key of the
\* call back with get({ key }), or makes the same call again.  After a
\* failed request the continuation runs before the error event reaches the
\* transaction.
OpFollow ==
  /\ opPc = "called"
  /\ CallOver
  /\ ~opAborted
  /\ Len(history) < MaxCalls - 1
  /\ \/ /\ Has(options.key)
        /\ kind' = "get"
        /\ options' = KeyOnly(options.key)
     \/ UNCHANGED <<kind, options>>
  /\ history' = Append(history, CallSummary)
  /\ data0' = data
  /\ opPc' = "init"
  /\ returned' = "none"
  /\ opPromise' = NoPromise
  /\ calls' = <<>>
  /\ handler' = "none"
  /\ container' = <<>>
  /\ cursorPos' = NoPos
  /\ handlerThrew' = FALSE
  /\ visited' = <<>>
  /\ UNCHANGED <<rev, data, queue, opAborted, opErrBubbling, keyGen>>

\* ============================================================ IDBee builder
\* Most calls of name, version, stores, open, close and delete made on one
\* instance.
MaxBuilderCalls == 4

VARIABLES
  bRev,          \* "chain": src/src/index.js, "straight": src/unnamed/part_001
  dbName,        \* the name the instance opens (this.dbName / this.#dbName)
  dbVersion,     \* this.#dbVersion
  dbStores,      \* this.#dbStores, the store definitions in order
  isOpened,      \* this.#isOpened
  isNameSet,     \* this.#isNameSet
  isVersionSet,  \* this.#isVersionSet
  isStoresSet,   \* this.#isStoresSet
  db,            \* this.db: 0 for null, else the number of a connection
  connections,   \* the connections handed out, in order
  openRequests,  \* the open and delete requests in flight, in order
  promises,      \* the promise each open() and delete() returned, in order
  databases,     \* the engine's databases, by name
  live,          \* an open() has succeeded and close() was not called since
  bCalls,        \* the number of calls made on the instance
  bCall,         \* the last call made on the instance and its outcome
  bBefore        \* the instance as it was just before that call

bldVars == <<bRev, dbName, dbVersion, dbStores, isOpened, isNameSet, isVersionSet,
             isStoresSet, db, connections, openRequests, promises, databases, live,
             bCalls, bCall, bBefore>>

Arr(items) == [tag |-> "Array", items |-> items]

\* { name, options, indexes } of a store definition.
StoreDef(n, opts, indexes) ==
  [tag |-> "Object", name |-> n, options |-> opts, indexes |-> indexes]

\* { keyPath, autoIncrement } of a store definition's options.
StoreOptions(keyPath, autoIncrement) ==
  [tag |-> "Object", keyPath |-> keyPath, autoIncrement |-> autoIncrement]

EmptyOptions == StoreOptions(Undefined, Undefined)

\* this.#dbStores.push({ name: "app" })
AppDef == StoreDef("app", Undefined, Undefined)

\* The README's todos store, a store with default options, and a store
\* whose options are no object.
TodosDef == StoreDef("todos", StoreOptions(Null, Bool(TRUE)), Arr(<<"userId">>))
UsersDef == StoreDef("users", Undefined, Undefined)
BadDef == StoreDef("bad", Num(1), Undefined)

\* An object store of a database.
StoreSchema(n, keyPath, autoIncrement, indexes) ==
  [name |-> n, keyPath |-> keyPath, autoIncrement |-> autoIncrement, indexes |-> indexes]

DbNames == {"idb", "mydb"}

NoDatabase == [version |-> 0, stores |-> {}]

NameInputs == {Str("mydb"), Num(1)}
VersionInputs == {Num(1), Num(2), Str("2")}
StoresInputs == {Arr(<<>>), Arr(<<TodosDef, UsersDef>>), Arr(<<BadDef>>), Str("todos")}
CallbackInputs == {[tag |-> "Object"], Num(1)}

\* The databases the engine holds before the instance is made.
DatabasesInit ==
  {[n \in DbNames |-> NoDatabase],
   [n \in DbNames |-> IF n = "idb"
                        THEN [version |-> 1,
                              stores |-> {StoreSchema("app", Str("id"), TRUE, {})}]
                        ELSE NoDatabase],
   [n \in DbNames |-> IF n = "idb"
                        THEN [version |-> 1,
                              stores |-> {StoreSchema("todos", Null, TRUE, {"todo"})}]
                        ELSE NoDatabase],
   [n \in DbNames |-> IF n = "idb"
                        THEN [version |-> 2,
                              stores |-> {StoreSchema("todos", Null, TRUE, {"todo"})}]
                        ELSE NoDatabase]}

\* constructor()
BuilderInit ==
  /\ bRev \in {"chain", "straight"}
  /\ dbName = Undefined
  /\ dbVersion = Num(1)
  /\ dbStores = <<>>
  /\ isOpened = FALSE
  /\ isNameSet = FALSE
  /\ isVersionSet = FALSE
  /\ isStoresSet = FALSE
  /\ db = 0
  /\ connections = <<>>
  /\ openRequests = <<>>
  /\ promises = <<>>
  /\ databases \in DatabasesInit
  /\ live = FALSE
  /\ bCalls = 0
  /\ bCall = [op |-> "new", out |-> "ok", error |-> ""]
  /\ bBefore = [dbName |-> Undefined, dbVersion |-> Num(1), dbStores |-> <<>>,
                isOpened |-> FALSE, isNameSet |-> FALSE, isVersionSet |-> FALSE,
                isStoresSet |-> FALSE, connected |-> FALSE, live |-> FALSE,
                resolved |-> 0]

BuilderIdle ==
  /\ bRev = "chain"
  /\ dbName = Undefined
  /\ dbVersion = Num(1)
  /\ dbStores = <<>>
  /\ isOpened = FALSE
  /\ isNameSet = FALSE
  /\ isVersionSet = FALSE
  /\ isStoresSet = FALSE
  /\ db = 0
  /\ connections = <<>>
  /\ openRequests = <<>>
  /\ promises = <<>>
  /\ databases = [n \in DbNames |-> NoDatabase]
  /\ live = FALSE
  /\ bCalls = MaxBuilderCalls
  /\ bCall = [op |-> "none", out |-> "ok", error |-> ""]
  /\ bBefore = [dbName |-> Undefined, dbVersion |-> Num(1), dbStores |-> <<>>,
                isOpened |-> FALSE, isNameSet |-> FALSE, isVersionSet |-> FALSE,
                isStoresSet |-> FALSE, connected |-> FALSE, live |-> FALSE,
                resolved |-> 0]

\* this.db is a connection that was not closed.
Connected == db # 0 /\ connections[db].state = "open"

\* The number of open() promises resolved so far.
ResolvedOpens ==
  Cardinality({i \in 1..Len(promises) :
                 promises[i].call = "open" /\ promises[i].state = "resolved"})

\* The instance as a call finds it.
Snapshot ==
  [dbName |-> dbName, dbVersion |-> dbVersion, dbStores |-> dbStores,
   isOpened |-> isOpened, isNameSet |-> isNameSet, isVersionSet |-> isVersionSet,
   isStoresSet |-> isStoresSet, connected |-> Connected, live |-> live,
   resolved |-> ResolvedOpens]

threw(op, error) == [op |-> op, out |-> "threw", error |-> error]
returns(op, out) == [op |-> op, out |-> out, error |-> ""]

\* name(name) with the assignment placed ahead of the type test.
name_AssignsBeforeTypeTest ==
  /\ bCalls < MaxBuilderCalls
  /\ \E n \in NameInputs :
       IF isOpened
         THEN /\ bCall' = threw("name", "Cannot modify the builder after opening the database.")
              /\ UNCHANGED <<dbName, isNameSet>>
       ELSE IF isNameSet
         THEN /\ bCall' = threw("name", "Database name has already been set. You cannot set it multiple times.")
              /\ UNCHANGED <<dbName, isNameSet>>
       ELSE IF ~isType(n, "String")
         THEN /\ bCall' = threw("name", "db name must be a string")
              /\ dbName' = n
              /\ isNameSet' = TRUE
       ELSE /\ dbName' = n
            /\ isNameSet' = TRUE
            /\ bCall' = returns("name", "this")
  /\ bBefore' = Snapshot
  /\ bCalls' = bCalls + 1
  /\ UNCHANGED <<bRev, dbVersion, dbStores, isOpened, isVersionSet, isStoresSet, db,
                 connections, openRequests, promises, databases, live>>

\* name(name)
name ==
  /\ bCalls < MaxBuilderCalls
  /\ \E n \in NameInputs :
       IF isOpened
         THEN /\ bCall' = threw("name", "Cannot modify the builder after opening the database.")
              /\ UNCHANGED <<dbName, isNameSet>>
       ELSE IF isNameSet
         THEN /\ bCall' = threw("name", "Database name has already been set. You cannot set it multiple times.")
              /\ UNCHANGED <<dbName, isNameSet>>
       ELSE IF ~isType(n, "String")
         THEN /\ bCall' = threw("name", "db name must be a string")
              /\ UNCHANGED <<dbName, isNameSet>>
       ELSE /\ dbName' = n
            /\ isNameSet' = TRUE
            /\ bCall' = returns("name", "this")
  /\ bBefore' = Snapshot
  /\ bCalls' = bCalls + 1
  /\ UNCHANGED <<bRev, dbVersion, dbStores, isOpened, isVersionSet, isStoresSet, db,
                 connections, openRequests, promises, databases, live>>

\* version(version) with no test of this.#isVersionSet.
version_Resettable ==
  /\ bCalls < MaxBuilderCalls
  /\ \E v \in VersionInputs :
       IF isOpened
         THEN /\ bCall' = threw("version", "Cannot modify the builder after opening the database.")
              /\ UNCHANGED <<dbVersion, isVersionSet>>
       ELSE IF ~isType(v, "Number")
         THEN /\ bCall' = threw("version", "db version must be a number")
              /\ UNCHANGED <<dbVersion, isVersionSet>>
       ELSE /\ dbVersion' = v
            /\ isVersionSet' = TRUE
            /\ bCall' = returns("version", "this")
  /\ bBefore' = Snapshot
  /\ bCalls' = bCalls + 1
  /\ UNCHANGED <<bRev, dbName, dbStores, isOpened, isNameSet, isStoresSet, db,
                 connections, openRequests, promises, databases, live>>

\* version(version)
version ==
  /\ bCalls < MaxBuilderCalls
  /\ \E v \in VersionInputs :
       IF isOpened
         THEN /\ bCall' = threw("version", "Cannot modify the builder after opening the database.")
              /\ UNCHANGED <<dbVersion, isVersionSet>>
       ELSE IF isVersionSet
         THEN /\ bCall' = threw("version", "Database version has already been set. You cannot set it multiple times.")
              /\ UNCHANGED <<dbVersion, isVersionSet>>
       ELSE IF ~isType(v, "Number")
         THEN /\ bCall' = threw("version", "db version must be a number")
              /\ UNCHANGED <<dbVersion, isVersionSet>>
       ELSE /\ dbVersion' = v
            /\ isVersionSet' = TRUE
            /\ bCall' = returns("version", "this")
  /\ bBefore' = Snapshot
  /\ bCalls' = bCalls + 1
  /\ UNCHANGED <<bRev, dbName, dbStores, isOpened, isNameSet, isStoresSet, db,
                 connections, openRequests, promises, databases, live>>

\* stores(stores)
stores ==
  /\ bCalls < MaxBuilderCalls
  /\ \E s \in StoresInputs :
       IF isOpened
         THEN /\ bCall' = threw("stores", "Cannot modify the builder after opening the database.")
              /\ UNCHANGED <<dbStores, isStoresSet>>
       ELSE IF isStoresSet
         THEN /\ bCall' = threw("stores", "Database stores has already been set. You cannot set it multiple times.")
              /\ UNCHANGED <<dbStores, isStoresSet>>
       ELSE IF ~isType(s, "Array")
         THEN /\ bCall' = threw("stores", "db stores must be a array")
              /\ UNCHANGED <<dbStores, isStoresSet>>
       ELSE /\ dbStores' = s.items
            /\ isStoresSet' = TRUE
            /\ bCall' = returns("stores", "this")
  /\ bBefore' = Snapshot
  /\ bCalls' = bCalls + 1
  /\ UNCHANGED <<bRev, dbName, dbVersion, isOpened, isNameSet, isVersionSet, db,
                 connections, openRequests, promises, databases, live>>

\* open(callbacks = {}), up to the request placed by this.idb.open; the
\* callbacks given are an empty object or no object.
open ==
  /\ bCalls < MaxBuilderCalls
  /\ \E callbacks \in CallbackInputs :
       IF isOpened
         THEN /\ bCall' = threw("open", "Cannot open the database: it is already opened.")
              /\ UNCHANGED <<dbName, openRequests, promises>>
       ELSE IF ~isType(callbacks, "Object")
         THEN /\ bCall' = threw("open", "The argument for the 'open' method must be an object containing callbacks.")
              /\ UNCHANGED <<dbName, openRequests, promises>>
       ELSE LET n == IF isType(dbName, "Undefined") THEN Str("idb") ELSE dbName
            IN /\ dbName' = n
               /\ openRequests' = Append(openRequests,
                                         [call |-> "open", name |-> n.str,
                                          version |-> dbVersion.num,
                                          promise |-> Len(promises) + 1, upgraded |-> FALSE,
                                          aborted |-> FALSE])
               /\ promises' = Append(promises, [call |-> "open", state |-> "pending"])
               /\ bCall' = returns("open", "promise")
  /\ bBefore' = Snapshot
  /\ bCalls' = bCalls + 1
  /\ UNCHANGED <<bRev, dbVersion, dbStores, isOpened, isNameSet, isVersionSet,
                 isStoresSet, db, connections, databases, live>>

NamesOf(defs) == {defs[i].name : i \in 1..Len(defs)}

\* db.createObjectStore with autoIncrement off when the options name none.
NewStore_NoAutoIncrement(def) ==
  LET opts == IF Has(def.options) THEN def.options ELSE EmptyOptions
      keyPath == IF Has(opts.keyPath) THEN opts.keyPath ELSE Str("id")
      autoIncrement == IF Has(opts.autoIncrement)
                         THEN Truthy(opts.autoIncrement) ELSE FALSE
  IN StoreSchema(def.name, keyPath, autoIncrement, {})

\* db.createObjectStore(name, { keyPath, autoIncrement }) with keyPath = "id"
\* and autoIncrement = keyPath === "id" by default.
NewStore(def) ==
  LET opts == IF Has(def.options) THEN def.options ELSE EmptyOptions
      keyPath == IF Has(opts.keyPath) THEN opts.keyPath ELSE Str("id")
      autoIncrement == IF Has(opts.autoIncrement)
                         THEN Truthy(opts.autoIncrement) ELSE keyPath = Str("id")
  IN StoreSchema(def.name, keyPath, autoIncrement, {})

\* this.#dbStores.forEach(...) from definition i on: the store is created
\* when the name was not among the existing ones and fetched from the
\* upgrade transaction otherwise, its indexes are deleted and the declared
\* ones created. A definition that is invalid, a name created twice and a
\* store that is no longer there make the handler throw.
RECURSIVE ApplyStores(_, _, _, _)
ApplyStores(defs, i, existingStores, acc) ==
  IF i > Len(defs) \/ acc.threw THEN acc
  ELSE LET def == defs[i]
           opts == IF Has(def.options) THEN def.options ELSE EmptyOptions
           indexes == IF Has(def.indexes) THEN def.indexes ELSE Arr(<<>>)
           present == \E s \in acc.stores : s.name = def.name
       IN IF ~isType(opts, "Object") \/ ~isType(indexes, "Array")
            THEN [acc EXCEPT !.threw = TRUE]
          ELSE IF (def.name \notin existingStores) = present
            THEN [acc EXCEPT !.threw = TRUE]
          ELSE IF Cardinality(Range(indexes.items)) # Len(indexes.items)
            THEN [acc EXCEPT !.threw = TRUE]
          ELSE LET store == IF present
                              THEN CHOOSE s \in acc.stores : s.name = def.name
                              ELSE NewStore(def)
               IN ApplyStores(defs, i + 1, existingStores,
                              [acc EXCEPT !.stores =
                                 {s \in @ : s.name # def.name}
                                   \cup {[store EXCEPT !.indexes = Range(indexes.items)]}])

\* request.onupgradeneeded: the stores not configured are deleted, "app" is
\* configured when nothing is, and the configured stores are applied.
Upgrade(existing, defs) ==
  LET kept == {s \in existing : s.name \in NamesOf(defs)}
      ideal == IF Len(defs) = 0 THEN <<AppDef>> ELSE defs
      r == ApplyStores(ideal, 1, {s.name : s \in existing}, [threw |-> FALSE, stores |-> kept])
  IN [threw |-> r.threw, stores |-> r.stores, defs |-> ideal]

\* A connection to the database is open.
InUse(n) == \E c \in 1..Len(connections) : connections[c].name = n /\ connections[c].state = "open"

\* The engine serves the requests to open or delete one database in the
\* order they were placed, and requests for different databases in any
\* order.
Served(i) ==
  /\ i \in 1..Len(openRequests)
  /\ \A j \in 1..(i - 1) : openRequests[j].name # openRequests[i].name

RemoveAt(seq, i) == SubSeq(seq, 1, i - 1) \o SubSeq(seq, i + 1, Len(seq))

\* request.onupgradeneeded for a request in flight: the database is new or
\* older than the version asked for, and no connection to it is open.  A
\* throw in the handler aborts the upgrade: the database stays as it was and
\* the request is left to fail.
OpenUpgradeNeeded ==
  /\ \E i \in 1..Len(openRequests) :
       LET req == openRequests[i]
           u == Upgrade(databases[req.name].stores, dbStores)
       IN /\ Served(i)
          /\ req.call = "open"
          /\ ~req.upgraded
          /\ ~req.aborted
          /\ databases[req.name].version < req.version
          /\ ~InUse(req.name)
          /\ dbStores' = u.defs
          /\ IF u.threw
               THEN /\ openRequests' = [openRequests EXCEPT ![i].aborted = TRUE]
                    /\ UNCHANGED databases
               ELSE /\ databases' = [databases EXCEPT ![req.name] =
                                       [version |-> req.version, stores |-> u.stores]]
                    /\ openRequests' = [openRequests EXCEPT ![i].upgraded = TRUE]
  /\ UNCHANGED <<bRev, dbName, dbVersion, isOpened, isNameSet, isVersionSet, isStoresSet,
                 db, connections, promises, live, bCalls, bCall, bBefore>>

\* request.onsuccess: this.db = event.target.result, and in the straight
\* revision this.#isOpened = true; resolve(this).
OpenSuccess ==
  /\ \E i \in 1..Len(openRequests) :
       LET req == openRequests[i]
       IN /\ Served(i)
          /\ req.call = "open"
          /\ ~req.aborted
          /\ databases[req.name].version = req.version
          /\ connections' = Append(connections, [name |-> req.name, state |-> "open",
                                                 upgraded |-> req.upgraded])
          /\ db' = Len(connections) + 1
          /\ isOpened' = (IF bRev = "straight" THEN TRUE ELSE isOpened)
          /\ promises' = [promises EXCEPT ![req.promise].state = "resolved"]
          /\ openRequests' = RemoveAt(openRequests, i)
  /\ live' = TRUE
  /\ UNCHANGED <<bRev, dbName, dbVersion, dbStores, isNameSet, isVersionSet, isStoresSet,
                 databases, bCalls, bCall, bBefore>>

\* request.onerror: the database is newer than the version asked for, or
\* the upgrade was aborted; reject(event.target.error).
OpenError ==
  /\ \E i \in 1..Len(openRequests) :
       LET req == openRequests[i]
       IN /\ Served(i)
          /\ req.call = "open"
          /\ req.aborted \/ databases[req.name].version > req.version
          /\ promises' = [promises EXCEPT ![req.promise].state = "rejected"]
          /\ openRequests' = RemoveAt(openRequests, i)
  /\ UNCHANGED <<bRev, dbName, dbVersion, dbStores, isOpened, isNameSet, isVersionSet,
                 isStoresSet, db, connections, databases, live, bCalls, bCall, bBefore>>

\* close()
close ==
  /\ bCalls < MaxBuilderCalls
  /\ IF db = 0
       THEN /\ bCall' = threw("close", "The database connection is not open or already closed")
            /\ UNCHANGED <<isOpened, connections>>
       ELSE /\ isOpened' = (IF bRev = "straight" THEN FALSE ELSE isOpened)
            /\ connections' = [connections EXCEPT ![db].state = "closed"]
            /\ bCall' = returns("close", "undefined")
  /\ live' = FALSE
  /\ bBefore' = Snapshot
  /\ bCalls' = bCalls + 1
  /\ UNCHANGED <<bRev, dbName, dbVersion, dbStores, isNameSet, isVersionSet, isStoresSet,
                 db, openRequests, promises, databases>>

\* delete(): indexedDB.deleteDatabase(name) when this.db was ever set.
delete ==
  /\ bCalls < MaxBuilderCalls
  /\ IF db = 0
       THEN /\ bCall' = threw("delete", "Database is not open.")
            /\ UNCHANGED <<openRequests, promises>>
       ELSE /\ openRequests' = Append(openRequests,
                                      [call |-> "delete", name |-> dbName.str, version |-> 0,
                                       promise |-> Len(promises) + 1, upgraded |-> FALSE,
                                       aborted |-> FALSE])
            /\ promises' = Append(promises, [call |-> "delete", state |-> "pending"])
            /\ bCall' = returns("delete", "promise")
  /\ bBefore' = Snapshot
  /\ bCalls' = bCalls + 1
  /\ UNCHANGED <<bRev, dbName, dbVersion, dbStores, isOpened, isNameSet, isVersionSet,
                 isStoresSet, db, connections, databases, live>>

\* request.onsuccess of deleteDatabase: the engine deletes the database once
\* no connection to it is open; resolve(event).
DeleteSuccess ==
  /\ \E i \in 1..Len(openRequests) :
       LET req == openRequests[i]
       IN /\ Served(i)
          /\ req.call = "delete"
          /\ ~InUse(req.name)
          /\ databases' = [databases EXCEPT ![req.name] = NoDatabase]
          /\ promises' = [promises EXCEPT ![req.promise].state = "resolved"]
          /\ openRequests' = RemoveAt(openRequests, i)
  /\ UNCHANGED <<bRev, dbName, dbVersion, dbStores, isOpened, isNameSet, isVersionSet,
                 isStoresSet, db, connections, live, bCalls, bCall, bBefore>>

\* ======================================================== #createRange
VARIABLES
  rangeQuery,   \* the query handed to #createRange (Undefined: none)
  rangeResult,  \* what the call returned
  rangePc       \* "init" before the call, "done" after it

rngVars == <<rangeQuery, rangeResult, rangePc>>

vars == <<txVars, opVars, rngVars, bldVars>>
nonTxVars == <<opVars, rngVars, bldVars>>
nonOpVars == <<txVars, rngVars, bldVars>>

\* The values start, end and only take: absent, or a key.
QueryBounds == {Undefined} \cup KeyUniverse

QuerySet == {Undefined} \cup {Query(st, en, on) : st \in QueryBounds, en \in QueryBounds,
                                                  on \in QueryBounds}

RangeInit ==
  /\ rangeQuery \in QuerySet
  /\ rangeResult = Undefined
  /\ rangePc = "init"

\* this.#createRange(query)
RangeCall ==
  /\ rangePc = "init"
  /\ rangePc' = "done"
  /\ rangeResult' = createRange(rangeQuery)
  /\ UNCHANGED rangeQuery

RangeIdle ==
  /\ rangeQuery = Undefined
  /\ rangeResult = Undefined
  /\ rangePc = "idle"

TxIdle ==
  /\ dbOpen = FALSE
  /\ dbClosed = FALSE
  /\ txArgs = [given |-> FALSE, names |-> <<>>, callback |-> "none"]
  /\ txPc = "idle"
  /\ txState = "none"
  /\ storeNames = <<>>
  /\ logicPc = "none"
  /\ logicVal = "undefined"
  /\ outer = PendingPromise
  /\ pending = <<>>
  /\ errBubbling = FALSE
  /\ persisted = [s \in StoreSet |-> {}]
  /\ working = persisted
  /\ persisted0 = persisted
  /\ issued = 0
  /\ commitCalls = 0
  /\ commitThrew = FALSE
  /\ failed = "no"
  /\ writesAtSettle = FALSE
  /\ commitDue = "no"

OpIdle ==
  /\ rev = "chain"
  /\ kind = "get"
  /\ options = [key |-> Undefined, index |-> Undefined, value |-> Undefined,
                where |-> Undefined, query |-> Undefined, count |-> Undefined,
                direction |-> Undefined]
  /\ data = [k \in DataKeys |-> Undefined]
  /\ data0 = data
  /\ opPc = "idle"
  /\ returned = "none"
  /\ opPromise = NoPromise
  /\ calls = <<>>
  /\ queue = <<>>
  /\ handler = "none"
  /\ container = <<>>
  /\ cursorPos = NoPos
  /\ handlerThrew = FALSE
  /\ opAborted = FALSE
  /\ opErrBubbling = FALSE
  /\ keyGen = FirstGeneratedKey
  /\ visited = <<>>
  /\ history = <<>>

\* The operations specification: one call of one operation on one store.
OpNext ==
  \/ OpCall /\ UNCHANGED nonOpVars
  \/ MainSuccess /\ UNCHANGED nonOpVars
  \/ ContinueSuccess /\ UNCHANGED nonOpVars
  \/ SubSuccess /\ UNCHANGED nonOpVars
  \/ OpRequestError /\ UNCHANGED nonOpVars
  \/ OpAbort /\ UNCHANGED nonOpVars

OpSpecInit == OpInit /\ TxIdle /\ RangeIdle /\ BuilderIdle

OpSpec == OpSpecInit /\ [][OpNext]_vars

\* The sequence specification: calls that take no query, count or direction,
\* made one after the other on one store.
SeqInit ==
  /\ OpInit
  /\ options.query = Undefined /\ options.count = Undefined /\ options.direction = Undefined
  /\ TxIdle
  /\ RangeIdle
  /\ BuilderIdle

SeqNext ==
  \/ OpCall /\ UNCHANGED nonOpVars
  \/ MainSuccess /\ UNCHANGED nonOpVars
  \/ ContinueSuccess /\ UNCHANGED nonOpVars
  \/ SubSuccess /\ UNCHANGED nonOpVars
  \/ OpRequestError /\ UNCHANGED nonOpVars
  \/ OpAbort /\ UNCHANGED nonOpVars
  \/ OpCancelled /\ UNCHANGED nonOpVars
  \/ OpFollow /\ UNCHANGED nonOpVars

SeqSpec == SeqInit /\ [][SeqNext]_vars

Init == TxInit /\ OpIdle /\ RangeIdle /\ BuilderIdle

Next ==
  \/ transaction /\ UNCHANGED nonTxVars
  \/ dbClose /\ UNCHANGED nonTxVars
  \/ LogicIssue /\ UNCHANGED nonTxVars
  \/ LogicAwaitOther /\ UNCHANGED nonTxVars
  \/ LogicResume /\ UNCHANGED nonTxVars
  \/ LogicReturn /\ UNCHANGED nonTxVars
  \/ LogicThrow /\ UNCHANGED nonTxVars
  \/ LogicCommit /\ UNCHANGED nonTxVars
  \/ TxRequestSuccess /\ UNCHANGED nonTxVars
  \/ TxRequestError /\ UNCHANGED nonTxVars
  \/ TxOnError /\ UNCHANGED nonTxVars
  \/ TxErrorNoAbort /\ UNCHANGED nonTxVars
  \/ TxErrorAbort /\ UNCHANGED nonTxVars
  \/ TxCancelled /\ UNCHANGED nonTxVars
  \/ TxComplete /\ UNCHANGED nonTxVars
  \/ TxAbort /\ UNCHANGED nonTxVars

Spec == Init /\ [][Next]_vars

\* The caller's logic, while it is executing, goes on until it suspends or
\* settles.
LogicStep ==
  \/ LogicRunning /\ (LogicIssue \/ LogicAwaitOther \/ LogicReturn \/ LogicThrow)
  \/ LogicCommit

\* The engine delivers the scope's events: the result of the first request
\* in flight, a failed request's error event, and the scope's completion or
\* abort once no request is left.
ScopeEmits ==
  \/ TxRequestSuccess \/ TxRequestError \/ TxOnError \/ TxErrorNoAbort \/ TxErrorAbort
  \/ TxCancelled
  \/ TxComplete \/ TxAbort

\* The transaction specification with its scheduling: executing logic
\* proceeds, and the engine gets to deliver the scope's events however often
\* the logic wakes up in between. Nothing makes a promise the logic awaits
\* outside the scope settle.
LiveSpec ==
  /\ Init
  /\ [][Next]_vars
  /\ WF_vars(LogicStep /\ UNCHANGED nonTxVars)
  /\ SF_vars(ScopeEmits /\ UNCHANGED nonTxVars)

\* The range specification: one call of #createRange.
RangeSpecInit == RangeInit /\ TxIdle /\ OpIdle /\ BuilderIdle

RangeNext == RangeCall /\ UNCHANGED <<txVars, opVars, bldVars>>

RangeSpec == RangeSpecInit /\ [][RangeNext]_vars

\* The builder specification: one instance, its calls and its open requests.
BuilderSpecInit == BuilderInit /\ TxIdle /\ OpIdle /\ RangeIdle

BuilderNext ==
  \/ name /\ UNCHANGED <<txVars, opVars, rngVars>>
  \/ version /\ UNCHANGED <<txVars, opVars, rngVars>>
  \/ stores /\ UNCHANGED <<txVars, opVars, rngVars>>
  \/ open /\ UNCHANGED <<txVars, opVars, rngVars>>
  \/ OpenUpgradeNeeded /\ UNCHANGED <<txVars, opVars, rngVars>>
  \/ OpenSuccess /\ UNCHANGED <<txVars, opVars, rngVars>>
  \/ OpenError /\ UNCHANGED <<txVars, opVars, rngVars>>
  \/ close /\ UNCHANGED <<txVars, opVars, rngVars>>
  \/ delete /\ UNCHANGED <<txVars, opVars, rngVars>>
  \/ DeleteSuccess /\ UNCHANGED <<txVars, opVars, rngVars>>

BuilderSpec == BuilderSpecInit /\ [][BuilderNext]_vars

\* ============================================================== claims

\* The option fields are ones the engine accepts: where, when supplied, is a
\* function, index, when supplied, names an index of the store, and the
\* query's start is not greater than its end.
ValidOptions ==
  /\ (Has(options.where) => isType(options.where, "Function"))
  /\ (Has(options.index) => IndexExists(options.index))
  /\ createRange(options.query) # DataError

\* No guard of the chain revision's handlers matches the options.
NoGuardMatches ==
  \A i \in 1..Len(ChainOf(kind)) : currentRequest(ChainOf(kind)[i], options).out = "false"

\* C1: once the caller's logic has resolved, a later failure of the scope (a
\* request error, or the scope's abort) makes the overall call reject; it
\* never stays resolved with the logic's value.
C1_ScopeFailureOverridesLogic ==
  (logicPc = "resolved" /\ txState = "aborted") => outer.state = "rejected"

\* C2: when the caller's logic fails after successful writes, none of the
\* writes is persisted once the scope has finalized.
C2_FailedLogicPersistsNothing ==
  (logicPc = "rejected" /\ writesAtSettle /\ TxFinished) => persisted = persisted0

\* C3: when the logic resolves with v and nothing fails on the scope, the
\* overall call resolves with v, never with the store names, also when the
\* scope completes while the logic is pending.
C3_ResolvesWithLogicValue ==
  (logicPc = "resolved" /\ failed = "no") =>
    outer = [state |-> "resolved", value |-> LogicResult(logicVal)]

\* C4: without caller logic the call opens a scope over the requested names
\* (every store when none is requested), places no request and calls no
\* commit, and resolves with those names exactly when the scope completes.
C4_NoLogicPassThrough ==
  (txArgs.callback = "none" /\ txState # "none") =>
    /\ storeNames = (IF txArgs.given THEN txArgs.names ELSE <<"todos", "users">>)
    /\ issued = 0
    /\ pending = <<>>
    /\ commitCalls = 0
    /\ (txState = "complete" =>
          outer = [state |-> "resolved", value |-> NamesResult(storeNames)])
    /\ (outer.state = "resolved" => txState = "complete")

C4_Witness ==
  /\ txArgs.callback = "none"
  /\ txArgs.given
  /\ txArgs.names = <<"users">>
  /\ txState = "complete"
  /\ outer = [state |-> "resolved", value |-> NamesResult(<<"users">>)]

\* C5: the chain revision's get places exactly one request, the one the fetch
\* table names for the presence pattern of key, index and where.
C5_FetchDispatch ==
  (rev = "chain" /\ kind = "get" /\ opPc = "called" /\ ValidOptions
     /\ ~(Has(options.key) /\ Has(options.where))) =>
    /\ Len(calls) = 1
    /\ calls[1].onIndex = Has(options.index)
    /\ (calls[1].onIndex => calls[1].index = options.index)
    /\ calls[1].prim = (IF Has(options.where) THEN "openCursor"
                        ELSE IF Has(options.key) THEN "get" ELSE "getAll")
    /\ (calls[1].prim = "get" => calls[1].key = options.key)
    /\ (calls[1].prim = "getAll" =>
          calls[1].range = createRange(options.query) /\ calls[1].count = options.count)
    /\ (calls[1].prim = "openCursor" =>
          calls[1].range = createRange(options.query)
            /\ calls[1].direction = options.direction)

C5_Witness ==
  /\ rev = "chain" /\ kind = "get"
  /\ options.key = Num(1) /\ options.index = Str("userId") /\ ~Has(options.where)
  /\ calls = <<IndexReq("get", Str("userId"), Num(1), Undefined, Undefined, Undefined,
                        Undefined)>>
  /\ opPromise = [state |-> "resolved", value |-> OpValue(SeedRecord(Num(1)))]

\* C6: in the chain revision a call whose options match no variant is a
\* rejected call: it places no request and does not return undefined.
C6_NoVariantRejects ==
  (rev = "chain" /\ opPc = "called" /\ NoGuardMatches) =>
    /\ calls = <<>>
    /\ returned = "promise"
    /\ opPromise.state = "rejected"

\* C7: in the straight-line revision every call has settled, resolved or
\* rejected, once every request it placed has settled.
C7_StraightSettles ==
  (rev = "straight" /\ opPc = "called" /\ queue = <<>>) =>
    opPromise.state \in {"resolved", "rejected"}

\* C8: the chain revision's put places one store.put(value, key) when value
\* is present and where absent, opens one cursor (on the index when index
\* is present, else on the store) when where is present and value absent,
\* and never does both.
C8_UpsertDispatch ==
  (rev = "chain" /\ kind = "put" /\ opPc = "called" /\ ValidOptions) =>
    /\ (Has(options.value) /\ ~Has(options.where) =>
          calls = <<StoreReq("put", options.key, options.value, Undefined, Undefined,
                             Undefined)>>)
    /\ (Has(options.where) /\ ~Has(options.value) =>
          /\ Len(calls) = 1
          /\ calls[1].prim = "openCursor"
          /\ calls[1].onIndex = Has(options.index)
          /\ (calls[1].onIndex => calls[1].index = options.index)
          /\ handler = "cursorUpdate")
    /\ ~\E i, j \in 1..Len(calls) : calls[i].prim = "put" /\ calls[j].prim = "openCursor"

C8_Witness ==
  /\ rev = "chain" /\ kind = "put"
  /\ Has(options.value) /\ ~Has(options.where) /\ options.key = Num(2)
  /\ data[Num(2)] = options.value
  /\ opPromise = [state |-> "resolved", value |-> OpValue(Num(2))]

\* C9: in both revisions remove places a delete of the key when key is
\* present and where absent, opens a cursor walk when where is present,
\* whatever key is, and places a clear when both are absent.
C9_RemoveDispatch ==
  (kind = "delete" /\ opPc = "called" /\ ValidOptions /\ ~Has(options.index)
     /\ ~Has(options.value)) =>
    /\ Len(calls) = 1
    /\ calls[1].prim = (IF Has(options.where) THEN "openCursor"
                        ELSE IF Has(options.key) THEN "delete" ELSE "clear")
    /\ (calls[1].prim = "delete" => calls[1].key = options.key)

\* C10: in the straight-line revision remove({key: k}) without where leaves
\* every record at another key as it was, also for the keys 0 and "".
C10_DirectDeleteFrame ==
  (rev = "straight" /\ kind = "delete" /\ Has(options.key) /\ ~Has(options.where)) =>
    \A k \in DataKeys : k # options.key => data[k] = data0[k]

\* The index's first entry whose indexed field equals the key of the call.
IndexedEntry(d) ==
  NextEntry(IndexReq("get", options.index, options.key, Undefined,
                     KeyRange(options.key, options.key), Undefined, Undefined), d, NoPos)

\* The engine failed a request of the call, or cancelled one when the scope
\* aborted.
EngineFailed ==
  /\ opPromise.state = "rejected"
  /\ opPromise.value \in {OpError("RequestError"), OpError("AbortError")}

\* C11: delete({index: i, key: k}) resolves, unless the engine fails its
\* request, and the record whose field indexed by i equals k is gone from
\* the store.
C11_IndexedDeleteOne ==
  (kind = "delete" /\ opPc = "called" /\ queue = <<>> /\ Has(options.key)
     /\ IndexExists(options.index) /\ ~Has(options.where) /\ ~Has(options.value)
     /\ ~EngineFailed) =>
    /\ returned = "promise"
    /\ opPromise.state = "resolved"
    /\ (IndexedEntry(data0) # NoPos => data[IndexedEntry(data0).key] = Undefined)

\* The call made just before the current one.
LastCall == history[Len(history)]

\* C12: put({key: k, value: v}) that resolved, followed in the same scope
\* by get({key: k}), yields the single record v unless the engine fails the
\* read, for every key k, 0 and "" included, in both revisions.
C12_PutThenGetRoundTrip ==
  (history # <<>> /\ LastCall.kind = "put" /\ Has(LastCall.options.key)
     /\ Has(LastCall.options.value) /\ ~Has(LastCall.options.where)
     /\ ~Has(LastCall.options.index) /\ LastCall.promise.state = "resolved"
     /\ kind = "get" /\ options = KeyOnly(LastCall.options.key)
     /\ opPc = "called" /\ queue = <<>> /\ ~EngineFailed) =>
    opPromise = [state |-> "resolved", value |-> OpValue(LastCall.options.value)]

\* C13: after delete({key: k}) has succeeded, the same delete made again in
\* the same scope returns a promise and, unless the engine fails its
\* request, resolves and leaves the store as the first call left it.
C13_RepeatedDeleteIdempotent ==
  (history # <<>> /\ LastCall.kind = "delete" /\ Has(LastCall.options.key)
     /\ ~Has(LastCall.options.where) /\ LastCall.promise.state = "resolved"
     /\ kind = "delete" /\ options = LastCall.options
     /\ opPc = "called" /\ queue = <<>>) =>
    /\ returned = "promise"
    /\ \/ EngineFailed
       \/ /\ opPromise = [state |-> "resolved", value |-> OpValue(Undefined)]
          /\ data = LastCall.after
          /\ ~opAborted

C13_Witness ==
  /\ history # <<>> /\ LastCall.kind = "delete" /\ LastCall.options.key = Num(1)
  /\ ~Has(LastCall.options.where) /\ LastCall.promise.state = "resolved"
  /\ LastCall.before[Num(1)] # Undefined /\ LastCall.before[Num(2)] # Undefined
  /\ kind = "delete" /\ options = LastCall.options
  /\ opPromise.state = "resolved"
  /\ data[Num(1)] = Undefined /\ data[Num(2)] # Undefined

\* The call is delete({where: p}) with p a function, walking the store.
CursorRemoveCall ==
  /\ kind = "delete" /\ opPc = "called"
  /\ isType(options.where, "Function")
  /\ ~Has(options.key) /\ ~Has(options.index) /\ ~Has(options.value)

\* C14: when delete({where: p}) has resolved, the records of the walked
\* range for which p returned exactly true are gone, and every other
\* record, those for which p returned another truthy value included, is
\* as it was.
C14_CursorRemoveFrame ==
  (CursorRemoveCall /\ opPromise.state = "resolved") =>
    \A k \in DataKeys :
      data[k] = IF /\ data0[k] # Undefined
                   /\ InRange(k, createRange(options.query))
                   /\ ApplyWhere(options.where, data0[k]) = Bool(TRUE)
                  THEN Undefined ELSE data0[k]

\* p returns true for two stored records: both are deleted, the third stays.
C14_Witness ==
  /\ CursorRemoveCall /\ opPromise.state = "resolved"
  /\ options.where = Fn("returnsTrue") /\ ~Has(options.query)
  /\ data0[Num(0)] # Undefined /\ data0[Num(1)] # Undefined /\ data0[Str("")] # Undefined
  /\ data[Num(0)] = data0[Num(0)] /\ data[Num(1)] = Undefined /\ data[Str("")] = Undefined

\* C15: in both revisions a cursor-based delete that has walked to the end
\* resolves with no value, never with a list of the deleted keys.
C15_CursorRemoveReportsNothing ==
  (kind = "delete" /\ handler = "cursorDelete" /\ calls # <<>>
     /\ calls[1].prim = "openCursor" /\ opPromise.state = "resolved") =>
    opPromise.value = OpValue(Undefined)

\* The keys of the records the walk of the current call ranges over: those
\* whose key (whose userId, on the index) lies in the query's range.
RangeKeys ==
  {k \in DataKeys :
     /\ data0[k] # Undefined
     /\ (calls[1].onIndex => isType(data0[k], "Object"))
     /\ InRange(IF calls[1].onIndex THEN Num(data0[k].userId) ELSE k,
                createRange(options.query))}

\* What where returned at each entry visited, in the order of the visits.
WhereResults == [i \in 1..Len(visited) |-> ApplyWhere(options.where, data0[visited[i].key])]

\* The call is a cursor walk of get that has resolved.
CursorFetchResolved ==
  /\ kind = "get" /\ handler = "cursorGet" /\ calls # <<>> /\ calls[1].prim = "openCursor"
  /\ opPromise.state = "resolved"

\* C16 as written: when get({where: p}) has resolved, p was applied exactly
\* once at each entry of the range, and the list resolved with is made of
\* exactly the truthy values p returned, one for each such entry.
C16_CursorFetchAsWritten ==
  CursorFetchResolved =>
    /\ {visited[i].key : i \in 1..Len(visited)} = RangeKeys
    /\ Len(visited) = Cardinality(RangeKeys)
    /\ opPromise.value = OpList(SelectSeq(WhereResults, Truthy))

\* The walk is one on an index in a unique direction.
UniqueWalk == calls[1].onIndex /\ options.direction \in {Str("nextunique"), Str("prevunique")}

\* The keys of the records the walk stops at: every record of the range,
\* and in a unique direction on an index, of the records sharing an indexed
\* value, the one with the lowest key only.
WalkedKeys ==
  {k \in RangeKeys :
     UniqueWalk => \A j \in RangeKeys : data0[j].userId = data0[k].userId => KeyLeq(k, j)}

\* C16: when get({where: p}) has resolved, p was applied exactly once at
\* each entry of the range the walk stops at -- every entry, except that a
\* unique direction on an index takes one entry for each indexed value --
\* and the list resolved with is made of exactly the truthy values p
\* returned, one for each such entry.
C16_CursorFetchCollectsTruthy ==
  CursorFetchResolved =>
    /\ {visited[i].key : i \in 1..Len(visited)} = WalkedKeys
    /\ Len(visited) = Cardinality(WalkedKeys)
    /\ opPromise.value = OpList(SelectSeq(WhereResults, Truthy))

\* "nextunique" on the index userId over three records, two of them with
\* userId 1: p is applied at the records at 0 and 1 and not at the one at
\* "", and the list holds the changed copy of the record at 1 alone.
C16_Witness ==
  /\ CursorFetchResolved /\ options.where = Fn("completes")
  /\ options.index = Str("userId") /\ options.direction = Str("nextunique")
  /\ data0[Num(0)] # Undefined /\ data0[Num(1)] # Undefined /\ data0[Str("")] # Undefined
  /\ data0[Num(2)] = Undefined
  /\ Len(visited) = 2
  /\ opPromise = [state |-> "resolved",
                  value |-> OpList(<<[SeedRecord(Num(1)) EXCEPT !.completed = TRUE]>>)]

\* The record at key a is met before the record at key b by a walk in the
\* direction of the call: by key on the store, by (userId, key) on the
\* index, ascending for "next" (the default) and "nextunique" and
\* descending for "prev" and "prevunique".
WalkBefore(a, b) ==
  LET up == IF calls[1].onIndex
              THEN \/ data0[a].userId < data0[b].userId
                   \/ data0[a].userId = data0[b].userId /\ KeyLess(a, b)
              ELSE KeyLess(a, b)
      down == IF calls[1].onIndex
                THEN \/ data0[b].userId < data0[a].userId
                     \/ data0[a].userId = data0[b].userId /\ KeyLess(b, a)
                ELSE KeyLess(b, a)
  IN IF options.direction \in {Str("prev"), Str("prevunique")} THEN down ELSE up

\* C17: in a cursor walk of get or put the entries are visited in the
\* declared direction, and the result sequence is in the order of the
\* visits: the records a fetch collects, and the keys an update confirms,
\* are strictly ordered in that direction (descending keys for "prev").
C17_TraversalOrder ==
  (handler \in {"cursorGet", "cursorUpdate"} /\ calls # <<>> /\ calls[1].prim = "openCursor") =>
    /\ \A i, j \in 1..Len(visited) : i < j => WalkBefore(visited[i].key, visited[j].key)
    /\ (handler = "cursorGet" /\ options.where \in {Fn("returnsValue"), Fn("completes")} =>
          \A i, j \in 1..Len(container) :
            i < j => WalkBefore(container[i].todo, container[j].todo))
    /\ (handler = "cursorUpdate" =>
          \A i, j \in 1..Len(container) : i < j => WalkBefore(container[i], container[j]))
    /\ (opPromise.state = "resolved" => opPromise.value = OpList(container))

\* A reverse fetch over the keys from 1 on: the record at "" comes before
\* the record at 1.
C17_Witness ==
  /\ kind = "get" /\ handler = "cursorGet" /\ options.where = Fn("returnsValue")
  /\ options.direction = Str("prev") /\ ~Has(options.index)
  /\ Len(visited) = 3
  /\ opPromise = [state |-> "resolved",
                  value |-> OpList(<<SeedRecord(Str("")), SeedRecord(Num(1))>>)]

\* The call is a cursor walk of put: put({where: p}) with a cursor opened.
CursorUpdateWalk ==
  kind = "put" /\ handler = "cursorUpdate" /\ calls # <<>> /\ calls[1].prim = "openCursor"

\* An update sub-request was placed for the entry at pos: it is waiting in
\* the queue, or it has succeeded and its key was confirmed.
UpdateIssued(pos) ==
  \/ \E i \in 1..Len(queue) : queue[i].type = "update" /\ queue[i].pos = pos
  \/ \E i \in 1..Len(container) : container[i] = pos.key

\* C18: in a cursor walk of put an update is placed for an entry exactly
\* when where returned an object; for any other result (falsy, true, a
\* number, a string) no update is placed.
C18_UpdateOnlyForObjects ==
  (CursorUpdateWalk /\ ~opAborted /\ ~opErrBubbling) =>
    \A i \in 1..Len(visited) :
      UpdateIssued(visited[i]) <=> isType(WhereResults[i], "Object")

\* where returned a truthy value at the entry with key k.
TruthyAt(k) == Truthy(ApplyWhere(options.where, data0[k]))

\* C19: when a cursor walk of put resolves, no update sub-request is
\* outstanding, and the sequence resolved with holds the key of every
\* update placed during the walk, once each, in the order they were placed.
C19_UpdatesSettledAtResolve ==
  (CursorUpdateWalk /\ opPromise.state = "resolved") =>
    /\ \A i \in 1..Len(queue) : queue[i].type # "update"
    /\ opPromise.value =
         OpList(SelectSeq([i \in 1..Len(visited) |-> visited[i].key], TruthyAt))

\* Two of three records are updated: both keys are in the resolved list.
C19_Witness ==
  /\ CursorUpdateWalk /\ options.where = Fn("completes")
  /\ ~Has(options.query) /\ ~Has(options.index)
  /\ Len(visited) >= 3
  /\ data[Num(1)] = [SeedRecord(Num(1)) EXCEPT !.completed = TRUE]
  /\ data[Str("")] = [SeedRecord(Str("")) EXCEPT !.completed = TRUE]
  /\ opPromise = [state |-> "resolved", value |-> OpList(<<Num(1), Str("")>>)]

\* C20: when an update or delete sub-request of a cursor walk has failed,
\* the call is rejected with that failure; it is not resolved with the
\* results collected so far, and it is not left pending.
C20_SubRequestFailureRejects ==
  (handler \in {"cursorUpdate", "cursorDelete"} /\ calls # <<>>
     /\ calls[1].prim = "openCursor" /\ (opErrBubbling \/ opAborted)) =>
    opPromise = [state |-> "rejected", value |-> OpError("RequestError")]

\* The second update of a walk fails after the first was confirmed.
C20_Witness ==
  /\ CursorUpdateWalk /\ opAborted
  /\ container # <<>> /\ Len(visited) >= 2
  /\ opPromise.state = "rejected"
  /\ data = data0

\* C21: in get, put and delete a where that is supplied and is no function
\* makes the call fail with "where must be a function" with no request
\* placed, whatever key and value are.
C21_WhereNotCallableFails ==
  (opPc = "called" /\ Has(options.where) /\ ~isType(options.where, "Function")
     /\ (Has(options.index) => IndexExists(options.index))) =>
    /\ calls = <<>>
    /\ \/ returned = "threw"
       \/ /\ returned = "promise"
          /\ opPromise = [state |-> "rejected", value |-> OpError("where must be a function")]

\* The query of the call, {} when none was given.
GivenQuery == IF isType(rangeQuery, "Undefined") THEN EmptyQuery ELSE rangeQuery

\* The statement of C22 as written: start and end both present always give
\* the closed interval.
C22_RangeShapesAsWritten ==
  rangePc = "done" =>
    LET q == GivenQuery
    IN /\ (Has(q.only) => rangeResult = KeyRange(q.only, q.only))
       /\ (~Has(q.only) /\ Has(q.start) /\ Has(q.end) =>
             rangeResult = KeyRange(q.start, q.end))
       /\ (~Has(q.only) /\ Has(q.start) /\ ~Has(q.end) =>
             rangeResult = KeyRange(q.start, Undefined))
       /\ (~Has(q.only) /\ ~Has(q.start) /\ Has(q.end) =>
             rangeResult = KeyRange(Undefined, q.end))
       /\ (~Has(q.only) /\ ~Has(q.start) /\ ~Has(q.end) => rangeResult = Undefined)

\* C22: #createRange gives the exact-match bound on only when only is
\* present, whatever start and end are; else the closed interval when
\* start and end are present and start is not greater than end, and a
\* DataError when start is greater than end; else the lower bound for
\* start alone, the upper bound for end alone, and no bound for none.
C22_RangeShapes ==
  rangePc = "done" =>
    LET q == GivenQuery
    IN /\ (Has(q.only) =>
             /\ rangeResult = KeyRange(q.only, q.only)
             /\ rangeResult = createRange(Query(Undefined, Undefined, q.only)))
       /\ (~Has(q.only) /\ Has(q.start) /\ Has(q.end) /\ KeyLeq(q.start, q.end) =>
             rangeResult = KeyRange(q.start, q.end))
       /\ (~Has(q.only) /\ Has(q.start) /\ Has(q.end) /\ KeyLess(q.end, q.start) =>
             rangeResult = DataError)
       /\ (~Has(q.only) /\ Has(q.start) /\ ~Has(q.end) =>
             rangeResult = KeyRange(q.start, Undefined))
       /\ (~Has(q.only) /\ ~Has(q.start) /\ Has(q.end) =>
             rangeResult = KeyRange(Undefined, q.end))
       /\ (~Has(q.only) /\ ~Has(q.start) /\ ~Has(q.end) => rangeResult = Undefined)

\* only wins over start and end.
C22_Witness ==
  /\ rangePc = "done"
  /\ rangeQuery = Query(Num(0), Num(2), Num(1))
  /\ rangeResult = KeyRange(Num(1), Num(1))

\* get({index, query: {start, end}, count}) on an index of the store, with
\* no key and no where.
IndexRangeScan ==
  /\ kind = "get"
  /\ returned = "promise"
  /\ Has(options.index) /\ IndexExists(options.index)
  /\ ~Has(options.key) /\ ~Has(options.where)
  /\ Has(options.query)
  /\ Has(options.query.start) /\ Has(options.query.end) /\ ~Has(options.query.only)

\* The keys of the records whose indexed value lies in [start, end].
ScanKeys ==
  {k \in DataKeys :
     /\ isType(data0[k], "Object")
     /\ KeyLeq(options.query.start, Num(data0[k].userId))
     /\ KeyLeq(Num(data0[k].userId), options.query.end)}

\* The promise is resolved with `limit` records of the interval at most:
\* stored records, each once, ascending by indexed value, none of the left
\* out ones before a listed one.
ScanResolvedWith(limit) ==
  /\ opPromise.state = "resolved"
  /\ opPromise.value.kind = "list"
  /\ LET l == opPromise.value.list
     IN /\ Len(l) = (IF limit < Cardinality(ScanKeys) THEN limit ELSE Cardinality(ScanKeys))
        /\ \A i \in 1..Len(l) : l[i].todo \in ScanKeys /\ l[i] = data0[l[i].todo]
        /\ \A i \in 1..Len(l) : \A j \in 1..Len(l) :
             i < j => l[i].userId <= l[j].userId /\ l[i].todo # l[j].todo
        /\ \A k \in ScanKeys :
             (\A i \in 1..Len(l) : l[i].todo # k) =>
               \A i \in 1..Len(l) : l[i].userId <= data0[k].userId

\* The statement of C23 as written: every such call whose request the
\* engine does not fail resolves, truncated to count whenever count is given.
C23_IndexRangeScanAsWritten ==
  (IndexRangeScan /\ opPromise.state # "pending" /\ ~EngineFailed) =>
    ScanResolvedWith(IF Has(options.count) THEN options.count.num ELSE Cardinality(ScanKeys))

\* C23: get({index, query: {start, end}, count}) with start not greater
\* than end resolves with exactly the records whose indexed value lies in
\* [start, end], ascending by indexed value, only the first count of them
\* when count is a positive number and all of them when count is absent or
\* 0; with start greater than end it rejects with a DataError.  A call
\* whose request the engine fails rejects with that failure.
C23_IndexRangeScan ==
  (IndexRangeScan /\ opPromise.state # "pending" /\ ~EngineFailed) =>
    IF KeyLess(options.query.end, options.query.start)
      THEN opPromise = [state |-> "rejected", value |-> OpError("DataError")]
      ELSE ScanResolvedWith(IF Has(options.count) /\ options.count.num > 0
                              THEN options.count.num ELSE Cardinality(ScanKeys))

\* Three records in [1, 2], count 2: the two with the smaller indexed value.
C23_Witness ==
  /\ IndexRangeScan
  /\ options.query = Query(Num(1), Num(2), Undefined)
  /\ options.count = Num(2)
  /\ data0[Num(0)] # Undefined /\ data0[Num(2)] # Undefined
  /\ opPromise = [state |-> "resolved",
                  value |-> OpList(<<SeedRecord(Num(1)), SeedRecord(Str(""))>>)]

\* C24: once a request placed inside the scope has failed and the scope has
\* finished, the overall call is rejected -- also when the logic awaited the
\* request, caught its rejection and returned a value.
C24_RequestErrorRejectsCall ==
  (failed \in {"request", "awaited"} /\ TxFinished) => outer.state = "rejected"

\* C25: with caller logic, commit has been requested exactly once when the
\* logic has settled, by resolving or by failing, and the .finally callback
\* has run, and not at all before; the callback is due only once the logic
\* has settled.
C25_CommitOnceAfterLogicSettles ==
  (txArgs.callback # "none") =>
    /\ commitCalls = (IF logicPc \in {"resolved", "rejected"} /\ commitDue = "no"
                        THEN 1 ELSE 0)
    /\ (commitDue # "no" => logicPc \in {"resolved", "rejected"})

\* The logic failed after a write, and commit was requested once.
C25_Witness ==
  /\ txArgs.callback = "async"
  /\ logicPc = "rejected"
  /\ issued > 0
  /\ commitCalls = 1

Setters == {"name", "version", "stores"}

\* The setter's one-shot flag.
IsSet(op) ==
  CASE op = "name" -> isNameSet
    [] op = "version" -> isVersionSet
    [] op = "stores" -> isStoresSet

AlreadySet(op) ==
  CASE op = "name" -> "Database name has already been set. You cannot set it multiple times."
    [] op = "version" -> "Database version has already been set. You cannot set it multiple times."
    [] op = "stores" -> "Database stores has already been set. You cannot set it multiple times."

Locked == "Cannot modify the builder after opening the database."

\* C26 as written: a setter succeeds only when it has not succeeded before;
\* every call of a setter that has succeeded before throws its "already
\* been set" error and leaves name, version and store definitions as they
\* were, in any sequence of builder calls; a setter that has succeeded
\* stays set.
C26_SingleAssignmentAsWritten ==
  [][\A op \in Setters :
       /\ (bCalls' = bCalls + 1 /\ bCall'.op = op) =>
            /\ (bCall'.out = "this" => ~IsSet(op))
            /\ (IsSet(op) =>
                  /\ bCall' = threw(op, AlreadySet(op))
                  /\ UNCHANGED <<dbName, dbVersion, dbStores>>)
       /\ (IsSet(op) => IsSet(op)')]_vars

\* C26: a setter succeeds only when it has not succeeded before; a call of
\* a setter that has succeeded before throws and leaves name, version and
\* store definitions as they were: its "already been set" error on an
\* instance that is not marked opened, and "Cannot modify the builder after
\* opening the database." on one that is; a setter that has succeeded stays
\* set.
C26_SingleAssignment ==
  [][\A op \in Setters :
       /\ (bCalls' = bCalls + 1 /\ bCall'.op = op) =>
            /\ (bCall'.out = "this" => ~IsSet(op))
            /\ (IsSet(op) =>
                  /\ bCall' = threw(op, IF isOpened THEN Locked ELSE AlreadySet(op))
                  /\ UNCHANGED <<dbName, dbVersion, dbStores>>)
       /\ (IsSet(op) => IsSet(op)')]_vars

\* stores() called again after it succeeded: it threw and the definitions
\* are those of the first call.
C26_Witness ==
  /\ bCall = threw("stores", AlreadySet("stores"))
  /\ dbStores = <<TodosDef, UsersDef>>
  /\ bBefore.dbStores = <<TodosDef, UsersDef>>

\* C27: in src/src/index.js, a setter called after an open() of the
\* instance has resolved throws "Cannot modify the builder after opening
\* the database.".
C27_LockedAfterOpen ==
  (bRev = "chain" /\ bCall.op \in Setters /\ bBefore.resolved > 0) =>
    bCall = threw(bCall.op, "Cannot modify the builder after opening the database.")

\* C28: open() called when an earlier open() has succeeded and close() was
\* not called since throws "Cannot open the database: it is already opened.".
C28_OpenTwiceThrows ==
  (bCall.op = "open" /\ bBefore.live) =>
    bCall = threw("open", "Cannot open the database: it is already opened.")

\* C29: close() throws "The database connection is not open or already
\* closed" exactly when the instance has no open connection, and closes the
\* connection otherwise.
C29_CloseWithoutConnectionThrows ==
  [][(bCalls' = bCalls + 1 /\ bCall'.op = "close") =>
       IF Connected
         THEN bCall'.out # "threw" /\ ~Connected'
         ELSE bCall' = threw("close", "The database connection is not open or already closed")]_vars

\* C30: with no name and no stores configured, every request in flight is
\* for the database "idb", the connection an open() hands over is one to
\* "idb", and when that open ran the upgrade the database then has exactly
\* the store "app" with keyPath "id" and autoIncrement.
C30_DefaultConfiguration ==
  [][(~isNameSet' /\ ~isStoresSet') =>
       /\ \A i \in 1..Len(openRequests') : openRequests'[i].name = "idb"
       /\ (db' # db =>
             /\ connections'[db'].name = "idb"
             /\ (connections'[db'].upgraded =>
                   databases'["idb"].stores = {StoreSchema("app", Str("id"), TRUE, {})}))]_vars

\* A fresh engine: open() created "idb" with the store "app".
C30_Witness ==
  /\ ~isNameSet /\ ~isStoresSet /\ ~isVersionSet
  /\ db # 0
  /\ connections[db].upgraded
  /\ dbName = Str("idb")
  /\ dbStores = <<AppDef>>
  /\ databases["idb"] = [version |-> 1, stores |-> {StoreSchema("app", Str("id"), TRUE, {})}]

\* The step is the upgrade handler running for a request in flight: the
\* request stays in flight, marked as upgraded or as aborted.
UpgradeStep ==
  /\ bCalls' = bCalls
  /\ Len(openRequests') = Len(openRequests)
  /\ openRequests' # openRequests

\* The request the upgrade handler ran for.
UpgradedRequest == CHOOSE i \in 1..Len(openRequests) : openRequests'[i] # openRequests[i]

\* Every configured definition has options that are an object or absent and
\* indexes that are an array or absent.
WellFormedStores ==
  \A i \in 1..Len(dbStores) :
    /\ (Has(dbStores[i].options) => isType(dbStores[i].options, "Object"))
    /\ (Has(dbStores[i].indexes) => isType(dbStores[i].indexes, "Array"))

\* The indexes the configured list declares for the store named n.
DeclaredIndexes(defs, n) ==
  LET def == CHOOSE d \in Range(defs) : d.name = n
  IN IF Has(def.indexes) THEN Range(def.indexes.items) ELSE {}

\* C31: whatever stores the database held and whatever well-formed list is
\* configured, the upgrade handler does not throw, and after it the stores
\* of the database are the configured names ("app" alone when none is
\* configured), each with exactly the indexes declared for it.
C31_MigrationReachesConfiguredSchema ==
  [][(UpgradeStep /\ WellFormedStores) =>
       LET req == openRequests[UpgradedRequest]
           ideal == IF dbStores = <<>> THEN <<AppDef>> ELSE dbStores
       IN /\ ~openRequests'[UpgradedRequest].aborted
          /\ {st.name : st \in databases'[req.name].stores} = NamesOf(ideal)
          /\ \A st \in databases'[req.name].stores :
               st.indexes = DeclaredIndexes(ideal, st.name)]_vars

\* The handlers of the chain of k whose guard matches o: the handler did
\* not return false.
GuardMatches(k, o) ==
  {i \in 1..Len(ChainOf(k)) : currentRequest(ChainOf(k)[i], o).out # "false"}

\* C32: in the chain revision, for each of get, put and delete at most one
\* handler's guard matches the options, and a handler whose guard matches
\* gives the result of the whole chain, wherever it stands in it.
C32_AtMostOneGuardMatches ==
  \A k \in {"get", "put", "delete"} :
    /\ Cardinality(GuardMatches(k, options)) <= 1
    /\ \A i \in GuardMatches(k, options) :
         currentRequest(ChainOf(k)[i], options) = run(ChainOf(k), 1, options)

\* index and where without key: only the last handler of get's chain matches.
C32_Witness ==
  /\ rev = "chain" /\ kind = "get" /\ opPc = "called"
  /\ Has(options.index) /\ Has(options.where) /\ ~Has(options.key)
  /\ GuardMatches("get", options) = {Len(GetChain)}
  /\ calls # <<>> /\ calls[1].prim = "openCursor" /\ calls[1].onIndex

\* C33: when a call of get, put or delete has been made in one revision,
\* the other revision places for the same options the same request (same
\* primitive, same store or index, same arguments), or places none when the
\* call placed none.
C33_RevisionsEquivalent ==
  (opPc = "called") =>
    LET other == Resolve(IF rev = "chain" THEN "straight" ELSE "chain", kind, options)
    IN IF calls # <<>> THEN other.out = "request" /\ other.req = calls[1]
       ELSE other.out # "request"

\* C34: a transaction call that was made eventually settles, also when the
\* caller's logic or a promise it awaits never settles, and once settled
\* the call keeps its state and value.
C34_CallSettlesOnce ==
  /\ (txPc = "called") ~> (outer.state # "pending")
  /\ [][outer.state # "pending" => outer' = outer]_vars

\* The logic hangs on a promise that never settles; the scope completed and
\* resolved the call with the store names.
C34_Witness ==
  /\ logicPc = "waitOther"
  /\ txState = "complete"
  /\ outer = [state |-> "resolved", value |-> NamesResult(storeNames)]

\* C35: whenever transaction.commit() is called, the scope has neither
\* completed nor aborted.
C35_CommitOnlyOnLiveScope ==
  [][commitCalls' # commitCalls => ~TxFinished]_vars

C37_CountBoundsList ==
  (kind = "get" /\ isType(options.count, "Number") /\ opPromise.state = "resolved"
     /\ opPromise.value.kind = "list") =>
    Len(opPromise.value.list) <= options.count.num

\* The TypeError of a setter given an argument of the wrong type.
TypeErrorOf(op) ==
  CASE op = "name" -> "db name must be a string"
    [] op = "version" -> "db version must be a number"
    [] op = "stores" -> "db stores must be a array"

\* C38: a setter call that throws its TypeError leaves the name, the
\* version, the store definitions, the three one-shot flags and the opened
\* flag as they were, and the next call of the same setter on an instance
\* still not marked opened succeeds when its argument has the right type and
\* throws the TypeError again when it has not.
C38_RejectedSetterChangesNothing ==
  [][\A op \in Setters :
       /\ (bCalls' = bCalls + 1 /\ bCall' = threw(op, TypeErrorOf(op))) =>
            /\ UNCHANGED <<dbName, dbVersion, dbStores>>
            /\ UNCHANGED <<isNameSet, isVersionSet, isStoresSet, isOpened>>
            /\ ~IsSet(op)'
       /\ (bCall = threw(op, TypeErrorOf(op)) /\ bCalls' = bCalls + 1
             /\ bCall'.op = op /\ ~isOpened) =>
            \/ bCall' = returns(op, "this") /\ IsSet(op)'
            \/ bCall' = threw(op, TypeErrorOf(op))]_vars

\* name(1) threw its TypeError on an instance whose version was set: the
\* name is the one the constructor gave and the name flag is still down.
C38_Witness ==
  /\ bCall = threw("name", "db name must be a string")
  /\ dbName = bBefore.dbName
  /\ ~isNameSet
  /\ isVersionSet

\* The message of the rejection of a transaction call made with no
\* connection or with a callback that is not an async function.
RefusalOf(connected, args) ==
  IF ~connected THEN "Database is not open."
  ELSE "Transaction callback must be an asynchronous function."

\* C39: once transaction has been called with this.db unset, or with a
\* callback that is not an async function, the returned promise is rejected
\* with the error thrown in the executor, and there is no scope, no request
\* placed, no commit requested and no record changed.
C39_RefusedCallRejectsWithoutScope ==
  (txPc = "called" /\ (~dbOpen \/ txArgs.callback = "sync")) =>
    /\ outer = [state |-> "rejected", value |-> ErrorResult(RefusalOf(dbOpen, txArgs))]
    /\ txState = "none"
    /\ logicPc = "none"
    /\ issued = 0
    /\ pending = <<>>
    /\ commitCalls = 0
    /\ persisted = persisted0

\* A call on an open connection with store names and a callback that is
\* not an async function was rejected.
C39_Witness ==
  /\ txPc = "called"
  /\ dbOpen
  /\ txArgs.given
  /\ txArgs.callback = "sync"
  /\ outer.state = "rejected"
  /\ txState = "none"

====
